---- MODULE Spec2Model ----
(***************************************************************************)
(* PDF text extraction comparison: Gemini vs AWS Textract.                 *)
(*                                                                         *)
(* The module models                                                       *)
(*   - TextractHelper.extractTextFromPDF (src/textract-helper.js): stage   *)
(*     the document, start the job, poll, paginate the result, clean up;   *)
(*   - the /api/extract/gemini-s3 and /api/extract/textract-s3 handlers    *)
(*     (src/server.js) running concurrently on one staged key;             *)
(*   - processFile and the display functions of src/public/app.js;         *)
(*   - the batch loops of the stitching routines (src/gemini-helper.js,    *)
(*     src/unnamed/part_001, src/unnamed/part_003).                        *)
(*   - two concurrent calls of GeminiHelper.extractTextFromPDF and the     *)
(*     temporary directories they work in (src/gemini-helper.js);          *)
(*   - the object keys built by the server and the helper;                 *)
(*   - the polling loop of the older TextractHelper (src/unnamed/part_000).*)
(* Every awaited call of the helpers and handlers is one step of the model. *)
(***************************************************************************)
EXTENDS Integers, Sequences, FiniteSets, TLC

\* ------------------------------------------------------------------------
\* Bounds of the model
\* ------------------------------------------------------------------------
MaxPolls == 2
MaxResultPages == 3
MaxBlocks == 2
MaxPages == 13
MaxClock == 2
MaxDocPages == 2
MaxKeys == 3
MaxRunPages == 7

\* ------------------------------------------------------------------------
\* Program constants
\* ------------------------------------------------------------------------
PollIntervalMs == 3000

\* await this.sleep(5000) of the older helper (src/unnamed/part_000)
LegacyPollIntervalMs == 5000

\* The TextractHelper classes of the repository.
Impls == {"current", "legacy"}

\* Values of JobStatus in a GetDocumentTextDetection response.
Statuses == {"IN_PROGRESS", "SUCCEEDED", "FAILED", "PARTIAL_SUCCESS"}

\* Blocks a result page may carry: LINE blocks and a non-LINE block.
BlockKinds == {[BlockType |-> "LINE", Text |-> "a"],
               [BlockType |-> "LINE", Text |-> "b"],
               [BlockType |-> "WORD", Text |-> "w"]}

SeqsUpTo(S, n) == UNION {[1..k -> S] : k \in 0..n}

ResultPages == SeqsUpTo(BlockKinds, MaxBlocks)

\* The result of one job: its pages in order.  Page p carries the
\* continuation token p+1, the last page carries none.
JobResults == SeqsUpTo(ResultPages, MaxResultPages) \ {<<>>}

UploadKey == "uploads/uuid1-doc.pdf"
TempKey == "textract-temp/uuid2-uuid1-doc.pdf"

NoToken == 0

\* const pagesPerImage = 6; const cols = 2; const rows = 3;
pagesPerImage == 6
cols == 2
rows == 3

\* Sizes a rendered page image may have.
PageSizes == {[width |-> 2, height |-> 3], [width |-> 3, height |-> 2]}

\* Page sizes of a document whose pages are smaller than the grid cell in
\* both directions (a 1x1 page next to a 2x3 or a 3x2 page).
RunPageSizes == PageSizes \cup {[width |-> 1, height |-> 1]}

\* The stitching routines of the repository.
Variants == {"sharp", "canvas", "pdflib", "browser"}

VARIABLES
    s3,             \* keys of the objects present in the bucket
    jobPages,       \* the pages the OCR service holds for the job
    tpc,            \* position of TextractHelper.extractTextFromPDF
    jobStatus,      \* let jobStatus
    extractedText,  \* let extractedText, a sequence of string pieces
    nextToken,      \* let nextToken (NoToken is undefined)
    caught,         \* message of the error caught at line 99
    txOutcome,      \* what the call returned or threw
    txLog,          \* the calls the helper has issued, in order
    variant,        \* the stitching routine that runs
    pageImages,     \* the rendered page images, in page order
    si,             \* the loop variable i of the batch loop
    stitchedImages, \* const stitchedImages = []
    hpc,            \* position of each /api/extract/<service>-s3 handler
    reqKey,         \* req.body.key of each handler
    hres,           \* what the helper call of each handler returned or threw
    hcaught,        \* message of the error caught by each handler
    response,       \* the response each handler has sent
    srvLog,         \* the S3 calls the handlers have issued, in order
    selectedFile,   \* let selectedFile (TRUE when a file is selected)
    cpc,            \* position of processFile
    uploadKey,      \* the key of the presigned-url response
    chain,          \* state of geminiPromise and textractPromise
    arrived,        \* what each extraction request settled with
    sentKey,        \* the key sent in each extraction request
    panel,          \* the result panel of each service
    clLog,          \* the requests processFile has made in this run, in order
    wasReset,       \* resetToUpload ran and no processFile run started since
    impl,           \* the TextractHelper class that runs
    now,            \* Date.now(), in milliseconds
    tmpDirs,        \* the directories present under os.tmpdir()
    tmpFiles,       \* the files present in those directories
    gpc,            \* position of each GeminiHelper.extractTextFromPDF call
    tempDir,        \* const tempDir of each call
    docPages,       \* number of pages of the document of each call
    listed,         \* the page images each call works on
    gcaught,        \* message of the error each call caught
    gOutcome,       \* what each call returned or threw
    gLog,           \* the awaited calls each call has issued, in order
    issued,         \* the identifiers uuidv4() has returned
    keyLog,         \* the object keys built so far, in order
    urlRequest,     \* req.body of the last presigned-url request
    urlResponse,    \* the response the presigned-url handler sent to it
    newPdf,         \* the pages of the reassembled document
    pageCount,      \* the pageCount stitchPDFPages returns
    pageImages2,    \* the page images of a second run on the same document
    si2,            \* the loop variable i of the second run
    stitchedImages2, \* const stitchedImages of the second run
    fileType,       \* file.type of the file handed to handleFile
    fileSize,       \* file.size of that file, in bytes
    reqFile         \* req.file after upload.single('pdf')

txVars == <<jobPages, tpc, jobStatus, extractedText, nextToken, caught,
            txOutcome, txLog>>

stVars == <<variant, pageImages, si, stitchedImages>>

srvVars == <<hpc, reqKey, hres, hcaught, response, srvLog>>

clVars == <<selectedFile, cpc, uploadKey, chain, arrived, sentKey, panel,
            clLog, wasReset>>

gmVars == <<now, tmpDirs, tmpFiles, gpc, tempDir, docPages, listed, gcaught,
            gOutcome, gLog>>

keyVars == <<issued, keyLog, urlRequest, urlResponse>>

asmVars == <<newPdf, pageCount>>

reVars == <<pageImages2, si2, stitchedImages2>>

fileVars == <<fileType, fileSize, reqFile>>

vars == <<s3, txVars, stVars, srvVars, clVars, impl, gmVars, keyVars, asmVars,
          reVars, fileVars>>

\* ------------------------------------------------------------------------
\* TextractHelper.extractTextFromPDF (src/textract-helper.js)
\* ------------------------------------------------------------------------
Call(op, st, n) == [op |-> op, st |-> st, n |-> n]

CountCalls(log, op) == Cardinality({i \in DOMAIN log : log[i].op = op})

NoOutcome == [kind |-> "none", text |-> <<>>, message |-> <<>>]

RECURSIVE LineText_AllBlocks(_)
LineText_AllBlocks(blocks) ==
    IF blocks = <<>> THEN <<>>
    ELSE <<Head(blocks).Text, "\n">> \o LineText_AllBlocks(Tail(blocks))

\* result.Blocks.forEach(block => { if LINE: extractedText += Text + '\n' })
RECURSIVE LineText(_)
LineText(blocks) ==
    IF blocks = <<>> THEN <<>>
    ELSE (IF Head(blocks).BlockType = "LINE"
            THEN <<Head(blocks).Text, "\n">>
            ELSE <<>>) \o LineText(Tail(blocks))

\* The NextToken of page p of the job.
PageToken(pages, p) == IF p < Len(pages) THEN p + 1 ELSE NoToken

\* The page a request with the given NextToken is answered with.
PageIndex(token) == IF token = NoToken THEN 1 ELSE token

\* A result page as the service answers it.
PageResult(pages, p) == [Blocks |-> pages[p], NextToken |-> PageToken(pages, p)]

MorePages_StopOnEmptyPage(result) ==
    result.NextToken # NoToken /\ LineText(result.Blocks) # <<>>

\* nextToken = result.NextToken; } while (nextToken);
MorePages(result) == result.NextToken # NoToken

LoopNext_UntilFailed(status) ==
    IF status # "FAILED" THEN "sleep" ELSE "cleanup"

\* } while (jobStatus === 'IN_PROGRESS'); then Step 4
LoopNext(status) == IF status = "IN_PROGRESS" THEN "sleep" ELSE "cleanup"

PollNext_FailedFallsThrough(status) ==
    IF status = "SUCCEEDED" THEN "fetch" ELSE LoopNext(status)

\* The position after a status poll: the branch of lines 63-83.
PollNext(status) ==
    IF status = "SUCCEEDED" THEN "fetch"
    ELSE IF status = "FAILED" THEN "catch"
    ELSE LoopNext(status)

\* The argument of this.sleep in the polling loop.
SleepMs(v) == IF v = "current" THEN PollIntervalMs ELSE LegacyPollIntervalMs

\* new Error('Textract job failed') / new Error('Textract PDF job failed')
FailedMessage(v) ==
    IF v = "current" THEN <<"Textract job failed">>
                     ELSE <<"Textract PDF job failed">>

\* new Error(`Textract extraction failed: ${err.message}`)
WrapTextract(msg) == <<"Textract extraction failed: ">> \o msg

TxInitWith(pages, pc) ==
    /\ jobPages = pages
    /\ tpc = pc
    /\ jobStatus = ""
    /\ extractedText = <<>>
    /\ nextToken = NoToken
    /\ caught = <<>>
    /\ txOutcome = NoOutcome
    /\ txLog = <<>>
    /\ impl = "current"

\* A rejected putObject that is not thrown: the job is started anyway.
TxPut_IgnoresFailure ==
    /\ UNCHANGED <<stVars, srvVars, clVars, impl, asmVars, reVars, fileVars, gmVars, keyVars>>
    /\ tpc = "put"
    /\ \E ok \in BOOLEAN :
        /\ s3' = IF ok THEN s3 \cup {TempKey} ELSE s3
        /\ txLog' = Append(txLog,
                       Call("putObject", IF ok THEN "ok" ELSE "error", 0))
    /\ tpc' = "start"
    /\ UNCHANGED <<jobPages, jobStatus, extractedText, nextToken, caught,
                   txOutcome>>

\* Step 1: await s3.putObject(...)
TxPut ==
    /\ UNCHANGED <<stVars, srvVars, clVars, impl, asmVars, reVars, fileVars, gmVars, keyVars>>
    /\ tpc = "put"
    /\ \E ok \in BOOLEAN :
        IF ok
        THEN /\ s3' = s3 \cup {TempKey}
             /\ tpc' = "start"
             /\ caught' = caught
             /\ txLog' = Append(txLog, Call("putObject", "ok", 0))
        ELSE /\ s3' = s3
             /\ tpc' = "catch"
             /\ caught' = <<"S3 put error">>
             /\ txLog' = Append(txLog, Call("putObject", "error", 0))
    /\ UNCHANGED <<jobPages, jobStatus, extractedText, nextToken, txOutcome>>

\* Step 2: await textract.startDocumentTextDetection(...)
TxStart ==
    /\ UNCHANGED <<stVars, srvVars, clVars, impl, asmVars, reVars, fileVars, gmVars, keyVars>>
    /\ tpc = "start"
    /\ \E ok \in BOOLEAN :
        IF ok
        THEN /\ tpc' = "sleep"
             /\ caught' = caught
             /\ txLog' = Append(txLog, Call("startJob", "ok", 0))
        ELSE /\ tpc' = "catch"
             /\ caught' = <<"Textract start error">>
             /\ txLog' = Append(txLog, Call("startJob", "error", 0))
    /\ UNCHANGED <<s3, jobPages, jobStatus, extractedText, nextToken, txOutcome>>

TxSleep_Backoff ==
    /\ UNCHANGED <<stVars, srvVars, clVars, impl, asmVars, reVars, fileVars, gmVars, keyVars>>
    /\ tpc = "sleep"
    /\ tpc' = "poll"
    /\ txLog' = Append(txLog,
          Call("sleep", "", SleepMs(impl) * (CountCalls(txLog, "poll") + 1)))
    /\ UNCHANGED <<s3, jobPages, jobStatus, extractedText, nextToken, caught,
                   txOutcome>>

\* await this.sleep(3000)
TxSleep ==
    /\ UNCHANGED <<stVars, srvVars, clVars, impl, asmVars, reVars, fileVars, gmVars, keyVars>>
    /\ tpc = "sleep"
    /\ tpc' = "poll"
    /\ txLog' = Append(txLog, Call("sleep", "", SleepMs(impl)))
    /\ UNCHANGED <<s3, jobPages, jobStatus, extractedText, nextToken, caught,
                   txOutcome>>

\* const status = await textract.getDocumentTextDetection({ JobId })
\* followed by the branch on status.JobStatus.
TxPoll ==
    /\ UNCHANGED <<stVars, srvVars, clVars, impl, asmVars, reVars, fileVars, gmVars, keyVars>>
    /\ tpc = "poll"
    /\ \/ \E status \in Statuses :
            /\ status = "IN_PROGRESS" => CountCalls(txLog, "poll") + 1 < MaxPolls
            /\ jobStatus' = status
            /\ tpc' = PollNext(status)
            /\ caught' = IF PollNext(status) = "catch"
                           THEN FailedMessage(impl) ELSE caught
            /\ txLog' = Append(txLog, Call("poll", status, 0))
       \/ /\ jobStatus' = jobStatus
          /\ tpc' = "catch"
          /\ caught' = <<"Textract poll error">>
          /\ txLog' = Append(txLog, Call("poll", "error", 0))
    /\ nextToken' = NoToken
    /\ UNCHANGED <<s3, jobPages, extractedText, txOutcome>>

\* A rejected page request that is swallowed: the loop ends with the text
\* gathered so far.
TxFetch_SkipsFailedPage ==
    /\ UNCHANGED <<stVars, srvVars, clVars, impl, asmVars, reVars, fileVars, gmVars, keyVars>>
    /\ tpc = "fetch"
    /\ \/ LET result == PageResult(jobPages, PageIndex(nextToken))
          IN /\ extractedText' = extractedText \o LineText(result.Blocks)
             /\ nextToken' = result.NextToken
             /\ tpc' = IF MorePages(result) THEN "fetch"
                                           ELSE LoopNext(jobStatus)
             /\ txLog' = Append(txLog, Call("fetch", "ok", nextToken))
       \/ /\ tpc' = LoopNext(jobStatus)
          /\ txLog' = Append(txLog, Call("fetch", "error", nextToken))
          /\ UNCHANGED <<extractedText, nextToken>>
    /\ UNCHANGED <<s3, jobPages, jobStatus, caught, txOutcome>>

\* One round of the inner do-while: lines 66-79.
TxFetch ==
    /\ UNCHANGED <<stVars, srvVars, clVars, impl, asmVars, reVars, fileVars, gmVars, keyVars>>
    /\ tpc = "fetch"
    /\ \/ LET result == PageResult(jobPages, PageIndex(nextToken))
          IN /\ extractedText' = extractedText \o LineText(result.Blocks)
             /\ nextToken' = result.NextToken
             /\ tpc' = IF MorePages(result) THEN "fetch"
                                           ELSE LoopNext(jobStatus)
             /\ caught' = caught
             /\ txLog' = Append(txLog, Call("fetch", "ok", nextToken))
       \/ /\ tpc' = "catch"
          /\ caught' = <<"Textract fetch error">>
          /\ txLog' = Append(txLog, Call("fetch", "error", nextToken))
          /\ UNCHANGED <<extractedText, nextToken>>
    /\ UNCHANGED <<s3, jobPages, jobStatus, txOutcome>>

\* A return without Step 4.
TxCleanup_NoDelete ==
    /\ UNCHANGED <<stVars, srvVars, clVars, impl, asmVars, reVars, fileVars, gmVars, keyVars>>
    /\ tpc = "cleanup"
    /\ impl = "current"
    /\ tpc' = "returned"
    /\ txOutcome' = [kind |-> "returned", text |-> extractedText,
                     message |-> <<>>]
    /\ UNCHANGED <<s3, jobPages, jobStatus, extractedText, nextToken, caught,
                   txLog>>

\* Step 4: delete the temporary object (errors only logged), then return.
TxCleanup ==
    /\ UNCHANGED <<stVars, srvVars, clVars, impl, asmVars, reVars, fileVars, gmVars, keyVars>>
    /\ tpc = "cleanup"
    /\ impl = "current"
    /\ \E ok \in BOOLEAN :
        /\ s3' = IF ok THEN s3 \ {TempKey} ELSE s3
        /\ txLog' = Append(txLog,
                       Call("deleteObject", IF ok THEN "ok" ELSE "error", 0))
    /\ tpc' = "returned"
    /\ txOutcome' = [kind |-> "returned", text |-> extractedText,
                     message |-> <<>>]
    /\ UNCHANGED <<jobPages, jobStatus, extractedText, nextToken, caught>>

TxCatch_NoCleanup ==
    /\ UNCHANGED <<stVars, srvVars, clVars, impl, asmVars, reVars, fileVars, gmVars, keyVars>>
    /\ tpc = "catch"
    /\ impl = "current"
    /\ tpc' = "thrown"
    /\ txOutcome' = [kind |-> "thrown", text |-> <<>>,
                     message |-> WrapTextract(caught)]
    /\ UNCHANGED <<s3, jobPages, jobStatus, extractedText, nextToken, caught,
                   txLog>>

\* catch (err): delete the temporary object (errors ignored), then rethrow.
TxCatch ==
    /\ UNCHANGED <<stVars, srvVars, clVars, impl, asmVars, reVars, fileVars, gmVars, keyVars>>
    /\ tpc = "catch"
    /\ impl = "current"
    /\ \E ok \in BOOLEAN :
        /\ s3' = IF ok THEN s3 \ {TempKey} ELSE s3
        /\ txLog' = Append(txLog,
                       Call("deleteObject", IF ok THEN "ok" ELSE "error", 0))
    /\ tpc' = "thrown"
    /\ txOutcome' = [kind |-> "thrown", text |-> <<>>,
                     message |-> WrapTextract(caught)]
    /\ UNCHANGED <<jobPages, jobStatus, extractedText, nextToken, caught>>

\* src/unnamed/part_000 80 and 84-89: the older helper returns
\* extractedText from inside the SUCCEEDED branch, and falls off the end of
\* the function (undefined) when the loop ends on another status.
LegacyReturn ==
    /\ UNCHANGED <<stVars, srvVars, clVars, impl, asmVars, reVars, fileVars, gmVars, keyVars>>
    /\ tpc = "cleanup"
    /\ impl = "legacy"
    /\ tpc' = "returned"
    /\ txOutcome' =
          [kind |-> IF jobStatus = "SUCCEEDED" THEN "returned" ELSE "undefined",
           text |-> extractedText, message |-> <<>>]
    /\ UNCHANGED <<s3, jobPages, jobStatus, extractedText, nextToken, caught,
                   txLog>>

\* src/unnamed/part_000 86-88: catch (err) { throw err; }
LegacyCatch ==
    /\ UNCHANGED <<stVars, srvVars, clVars, impl, asmVars, reVars, fileVars, gmVars, keyVars>>
    /\ tpc = "catch"
    /\ impl = "legacy"
    /\ tpc' = "thrown"
    /\ txOutcome' = [kind |-> "thrown", text |-> <<>>, message |-> caught]
    /\ UNCHANGED <<s3, jobPages, jobStatus, extractedText, nextToken, caught,
                   txLog>>

\* ------------------------------------------------------------------------
\* The batch loops of the stitching routines
\* ------------------------------------------------------------------------
Max(S) == CHOOSE x \in S : \A y \in S : y <= x

Min2(a, b) == IF a <= b THEN a ELSE b

\* Math.ceil(a / b) for positive b
Ceil(a, b) == (a \div b) + (IF a % b = 0 THEN 0 ELSE 1)

\* The rendered pages of a document: page p of the document has number p.
Numbered(sizes) ==
    [p \in DOMAIN sizes |->
        [no |-> p, width |-> sizes[p].width, height |-> sizes[p].height]]

Reverse(files) == [k \in DOMAIN files |-> files[Len(files) + 1 - k]]

\* Orders in which fs.readdir may list the page files of the directory.
Listings(pages) == {pages, Reverse(pages)}

\* The place of file f in a list sorted by page number.
RECURSIVE InsertByPageNumber(_, _)
InsertByPageNumber(sorted, f) ==
    IF sorted = <<>> \/ sorted[Len(sorted)].no <= f.no
    THEN Append(sorted, f)
    ELSE Append(InsertByPageNumber(SubSeq(sorted, 1, Len(sorted) - 1), f),
                sorted[Len(sorted)])

\* The listing used in the order the directory returned it.
RECURSIVE SortByPageNumber_Unsorted(_)
SortByPageNumber_Unsorted(files) ==
    IF files = <<>> THEN <<>>
    ELSE Append(SortByPageNumber_Unsorted(SubSeq(files, 1, Len(files) - 1)),
                files[Len(files)])

\* files.sort((a, b) => numA - numB), numA the number parsed from the name
RECURSIVE SortByPageNumber(_)
SortByPageNumber(files) ==
    IF files = <<>> THEN <<>>
    ELSE InsertByPageNumber(
             SortByPageNumber(SubSeq(files, 1, Len(files) - 1)),
             files[Len(files)])

Batch_DropsLast(pages, i) ==
    SubSeq(pages, i + 1, Min2(i + pagesPerImage - 1, Len(pages)))

\* pages.slice(i, i + pagesPerImage)
Batch(pages, i) == SubSeq(pages, i + 1, Min2(i + pagesPerImage, Len(pages)))

MoreBatches_FullOnly(i, pages) == i + pagesPerImage <= Len(pages)

\* for (let i = 0; i < pages.length; i += pagesPerImage)
MoreBatches(i, pages) == i < Len(pages)

Widths(batch) == {batch[j].width : j \in DOMAIN batch}
Heights(batch) == {batch[j].height : j \in DOMAIN batch}

CellCol_ColumnMajor(j) == j \div rows

\* const col = j % cols, j counted from 0
CellCol(j) == j % cols

\* const row = Math.floor(j / cols), j counted from 0
CellRow(j) == j \div cols

\* A drawn rectangle; coordinates are numerators over the denominator den.
Rect(x, y, w, h, den) == [x |-> x, y |-> y, w |-> w, h |-> h, den |-> den]

\* The rectangle drawn for image j (counted from 0) with its grid cell.
Placed(j, rect) == [col |-> CellCol(j), row |-> CellRow(j)] @@ rect

Stitched(cw, ch, r, batch, cells) ==
    [width |-> cw * cols, height |-> ch * r, cellWidth |-> cw,
     cellHeight |-> ch, pages |-> [j \in DOMAIN batch |-> batch[j].no],
     cells |-> cells]

\* src/gemini-helper.js 87-116: the grid has as many rows as the batch
\* needs; images are composited at their own size.
StitchSharp(batch) ==
    LET r == Ceil(Len(batch), cols)
        cw == Max(Widths(batch))
        ch == Max(Heights(batch))
    IN Stitched(cw, ch, r, batch,
         [j \in DOMAIN batch |->
            Placed(j - 1,
                   Rect(CellCol(j - 1) * cw, CellRow(j - 1) * ch,
                        batch[j].width, batch[j].height, 1))])

\* Scaling by the larger of the two ratios instead of the smaller.
StitchCanvas_Cover(batch) ==
    LET cw == Max(Widths(batch))
        ch == Max(Heights(batch))
    IN Stitched(cw, ch, rows, batch,
         [j \in DOMAIN batch |->
            LET w == batch[j].width
                h == batch[j].height
                byWidth == cw * h >= ch * w
                sn == IF byWidth THEN cw ELSE ch
                sd == IF byWidth THEN w ELSE h
                col == CellCol(j - 1)
                row == CellRow(j - 1)
            IN Placed(j - 1,
                      Rect(2 * sd * col * cw + (sd * cw - w * sn),
                           2 * sd * row * ch + (sd * ch - h * sn),
                           2 * w * sn, 2 * h * sn, 2 * sd))])

\* src/gemini-helper.js 224-254: each image is scaled to fit its cell and
\* centred.  scale = min(cw / w, ch / h) is the fraction sn / sd.
StitchCanvas(batch) ==
    LET cw == Max(Widths(batch))
        ch == Max(Heights(batch))
    IN Stitched(cw, ch, rows, batch,
         [j \in DOMAIN batch |->
            LET w == batch[j].width
                h == batch[j].height
                byWidth == cw * h <= ch * w
                sn == IF byWidth THEN cw ELSE ch
                sd == IF byWidth THEN w ELSE h
                col == CellCol(j - 1)
                row == CellRow(j - 1)
            IN Placed(j - 1,
                      Rect(2 * sd * col * cw + (sd * cw - w * sn),
                           2 * sd * row * ch + (sd * ch - h * sn),
                           2 * w * sn, 2 * h * sn, 2 * sd))])

\* src/unnamed/part_003 72-92: fixed 2x3 grid, images drawn at own size.
StitchPdfLib(batch) ==
    LET cw == Max(Widths(batch))
        ch == Max(Heights(batch))
    IN Stitched(cw, ch, rows, batch,
         [j \in DOMAIN batch |->
            Placed(j - 1,
                   Rect(CellCol(j - 1) * cw, CellRow(j - 1) * ch,
                        batch[j].width, batch[j].height, 1))])

\* src/unnamed/part_001 50-70: the cell is the size of the first image of
\* the batch and every image is stretched to the cell.
StitchBrowser(batch) ==
    LET cw == batch[1].width
        ch == batch[1].height
    IN Stitched(cw, ch, rows, batch,
         [j \in DOMAIN batch |->
            Placed(j - 1,
                   Rect(CellCol(j - 1) * cw, CellRow(j - 1) * ch, cw, ch, 1))])

\* One iteration of the batch loop of src/gemini-helper.js 75-119.
SharpStep ==
    /\ variant = "sharp"
    /\ MoreBatches(si, pageImages)
    /\ stitchedImages' = Append(stitchedImages, StitchSharp(Batch(pageImages, si)))
    /\ si' = si + pagesPerImage
    /\ UNCHANGED <<variant, pageImages, s3, txVars, srvVars, clVars, impl, asmVars, reVars, fileVars, gmVars, keyVars>>

\* One iteration of the batch loop of src/gemini-helper.js 214-255.
CanvasStep ==
    /\ variant = "canvas"
    /\ MoreBatches(si, pageImages)
    /\ stitchedImages' = Append(stitchedImages, StitchCanvas(Batch(pageImages, si)))
    /\ si' = si + pagesPerImage
    /\ UNCHANGED <<variant, pageImages, s3, txVars, srvVars, clVars, impl, asmVars, reVars, fileVars, gmVars, keyVars>>

\* One iteration of the batch loop of src/unnamed/part_003 67-93.
PdfLibStep ==
    /\ variant = "pdflib"
    /\ MoreBatches(si, pageImages)
    /\ stitchedImages' = Append(stitchedImages, StitchPdfLib(Batch(pageImages, si)))
    /\ si' = si + pagesPerImage
    /\ UNCHANGED <<variant, pageImages, s3, txVars, srvVars, clVars, impl, asmVars, reVars, fileVars, gmVars, keyVars>>

\* One iteration of the batch loop of src/unnamed/part_001 43-71.
BrowserStep ==
    /\ variant = "browser"
    /\ MoreBatches(si, pageImages)
    /\ stitchedImages' = Append(stitchedImages, StitchBrowser(Batch(pageImages, si)))
    /\ si' = si + pagesPerImage
    /\ UNCHANGED <<variant, pageImages, s3, txVars, srvVars, clVars, impl, asmVars, reVars, fileVars, gmVars, keyVars>>

\* The stitched image routine v makes of one batch.
StitchOf(v, batch) ==
    CASE v = "sharp" -> StitchSharp(batch)
      [] v = "canvas" -> StitchCanvas(batch)
      [] v = "pdflib" -> StitchPdfLib(batch)
      [] v = "browser" -> StitchBrowser(batch)

\* One iteration of the batch loop in a second call of the same routine on
\* the same document, started when the first call has finished.
RestitchStep ==
    /\ ~MoreBatches(si, pageImages)
    /\ MoreBatches(si2, pageImages2)
    /\ stitchedImages2' = Append(stitchedImages2,
                                  StitchOf(variant, Batch(pageImages2, si2)))
    /\ si2' = si2 + pagesPerImage
    /\ UNCHANGED <<pageImages2, stVars, s3, txVars, srvVars, clVars, impl, asmVars, fileVars, gmVars, keyVars>>

StIdle ==
    /\ variant = "none"
    /\ pageImages = <<>>
    /\ si = 0
    /\ stitchedImages = <<>>

TxIdle == TxInitWith(<<>>, "idle")

\* No document has been reassembled yet: a marker page no document has.
NoDoc == <<[width |-> 0, height |-> 0, image |-> -1, w |-> 0, h |-> 0,
           den |-> 1]>>

NoCount == -1

AsmIdle ==
    /\ newPdf = NoDoc
    /\ pageCount = NoCount

ReIdle ==
    /\ pageImages2 = <<>>
    /\ si2 = 0
    /\ stitchedImages2 = <<>>

\* Sizes are in bytes.
MB == 1024 * 1024

\* README.md 7: "PDF files (up to 15MB)"
DocumentedLimit == 15 * MB

\* app.js 82: if (file.size > 20 * 1024 * 1024)
ClientLimit == 20 * MB

\* server.js 32: limits: { fileSize: 20 * 1024 * 1024 }
UploadLimit == 20 * MB

\* part_002 21: limits: { fileSize: 50 * 1024 * 1024 }
LegacyUploadLimit == 50 * MB

Pdf == "application/pdf"

FileTypes == {Pdf, "image/png"}

\* Sizes at and right above each of the limits.
FileSizes ==
    {DocumentedLimit, DocumentedLimit + 1, ClientLimit, ClientLimit + 1,
     LegacyUploadLimit, LegacyUploadLimit + 1}

\* req.file is undefined
NoFile == [type |-> "", size |-> 0]

FileIdle ==
    /\ fileType = ""
    /\ fileSize = 0
    /\ reqFile = NoFile

\* app.js 76-93, handleFile(file): a file that is no PDF, or larger than
\* the limit, is refused with an alert; any other becomes selectedFile.
HandleFile ==
    /\ cpc = "idle"
    /\ \E type \in FileTypes, size \in FileSizes :
          IF type # Pdf \/ size > ClientLimit
          THEN UNCHANGED <<selectedFile, fileType, fileSize>>
          ELSE /\ selectedFile' = TRUE
               /\ fileType' = type
               /\ fileSize' = size
    /\ UNCHANGED <<s3, txVars, stVars, srvVars, impl, asmVars, reVars, gmVars, keyVars, reqFile, cpc, uploadKey, chain,
                   arrived, sentKey, panel, clLog, wasReset>>

\* multer({ limits: { fileSize: limit }, fileFilter }): the file filter
\* lets only PDFs through and a file of more than `limit` bytes is
\* refused; whether a file of exactly `limit` bytes passes is left to the
\* library (atLimit).
Multer(limit, type, size, atLimit) ==
    IF type = Pdf /\ (size < limit \/ (size = limit /\ atLimit))
    THEN [type |-> type, size |-> size]
    ELSE NoFile

\* server.js 29-41: upload.single('pdf') on a posted file
UploadSingle ==
    /\ \E type \in FileTypes, size \in FileSizes, atLimit \in BOOLEAN :
          reqFile' = Multer(UploadLimit, type, size, atLimit)
    /\ UNCHANGED <<s3, txVars, stVars, srvVars, clVars, impl, asmVars, reVars, gmVars, keyVars, fileType, fileSize>>

\* part_002 18-30: upload.single('pdf') on a posted file
LegacyUploadSingle ==
    /\ \E type \in FileTypes, size \in FileSizes, atLimit \in BOOLEAN :
          reqFile' = Multer(LegacyUploadLimit, type, size, atLimit)
    /\ UNCHANGED <<s3, txVars, stVars, srvVars, clVars, impl, asmVars, reVars, gmVars, keyVars, fileType, fileSize>>

\* format: 'a4' of new jsPDF(...): every page is 210 by 297, whatever
\* the image drawn on it.
A4 == [width |-> 210, height |-> 297]

\* A page of the reassembled document showing stitched image k, drawn w by
\* h (numerators over den).
DocPage(width, height, k, w, h, den) ==
    [width |-> width, height |-> height, image |-> k, w |-> w, h |-> h,
     den |-> den]

\* newPdf.addPage([image.width, image.height]) and page.drawImage(image,
\* { x: 0, y: 0, width: image.width, height: image.height })
PdfLibPage(images, k) ==
    DocPage(images[k].width, images[k].height, k,
            images[k].width, images[k].height, 1)

\* pdfDoc.addImage(image, 'PNG', 0, 0, scaledWidth, scaledHeight) with
\* scale = Math.min(pdfWidth / img.width, pdfHeight / img.height)
JsPdfPage(images, k) ==
    LET w == images[k].width
        h == images[k].height
        byWidth == A4.width * h <= A4.height * w
        sn == IF byWidth THEN A4.width ELSE A4.height
        sd == IF byWidth THEN w ELSE h
    IN DocPage(A4.width, A4.height, k, w * sn, h * sn, sd)

\* The first page exists as soon as the jsPDF document is constructed.
BlankPage == DocPage(A4.width, A4.height, 0, 0, 0, 1)

\* gemini-helper.js 259-283 and src/unnamed/part_003 95-116: one page per
\* stitched image, then return { stitchedPdf, pageCount }.
PdfLibReassemble ==
    /\ variant \in {"canvas", "pdflib"}
    /\ ~MoreBatches(si, pageImages)
    /\ newPdf = NoDoc
    /\ newPdf' = [k \in DOMAIN stitchedImages |-> PdfLibPage(stitchedImages, k)]
    /\ pageCount' = Len(stitchedImages)
    /\ UNCHANGED <<s3, txVars, stVars, srvVars, clVars, impl, gmVars, keyVars,
                   reVars, fileVars>>

\* src/unnamed/part_001 73-97: a4 pages, addPage() before every image but
\* the first, then return { blob, images }.
JsPdfReassemble ==
    /\ variant = "browser"
    /\ ~MoreBatches(si, pageImages)
    /\ newPdf = NoDoc
    /\ newPdf' = IF stitchedImages = <<>> THEN <<BlankPage>>
                 ELSE [k \in DOMAIN stitchedImages |->
                          JsPdfPage(stitchedImages, k)]
    /\ pageCount' = NoCount
    /\ UNCHANGED <<s3, txVars, stVars, srvVars, clVars, impl, gmVars, keyVars,
                   reVars, fileVars>>

\* ------------------------------------------------------------------------
\* POST /api/extract/gemini-s3 and /api/extract/textract-s3 (src/server.js)
\* ------------------------------------------------------------------------
Services == {"gemini", "textract"}

NoKey == ""

\* JavaScript values that reach the `text` field of a response.
Str(pieces) == [type |-> "string", value |-> pieces]
Obj(pieces) == [type |-> "object", value |-> pieces]

\* The text the model answers with.
ModelText == <<"model text">>

\* What extractTextFromPDF of the exported GeminiHelper returns: the sharp
\* variant returns `text`, the canvas variant `{ text, stitchedPdf }`.
GeminiReturn(v, text) == IF v = "sharp" THEN Str(text) ELSE Obj(text)

\* new Error(`Gemini extraction failed: ${error.message}`)
WrapGemini(msg) == <<"Gemini extraction failed: ">> \o msg

NoResponse == [status |-> 0, body |-> [pending |-> TRUE]]

\* res.status(400).json({ error: 'S3 key required' })
BadRequest == [status |-> 400, body |-> [error |-> <<"S3 key required">>]]

\* res.json({ success: true, service, text, time, error: null })
SuccessBody(svc, text) ==
    [status |-> 200,
     body |-> [success |-> TRUE, service |-> svc, text |-> text,
               time |-> "elapsed", error |-> <<>>]]

\* The answer of the outer catch block given to every caught error.
FailureBody_ServerError(svc, msg) ==
    [status |-> 500,
     body |-> [success |-> FALSE, service |-> svc, error |-> msg]]

\* res.json({ success: false, service, text: '', time, error: error.message })
FailureBody(svc, msg) ==
    [status |-> 200,
     body |-> [success |-> FALSE, service |-> svc, text |-> Str(<<>>),
               time |-> "elapsed", error |-> msg]]

SrvCall(svc, op, st) == [svc |-> svc, op |-> op, st |-> st]

\* getObject rejects when no object is stored under the key.
GetOutcome(store, key, ok) ==
    IF key \notin store THEN "NoSuchKey" ELSE IF ok THEN "ok" ELSE "error"

GetError(st) ==
    IF st = "NoSuchKey" THEN <<"The specified key does not exist.">>
                        ELSE <<"S3 get error">>

\* The delete of the success path is awaited inside the try block: its
\* rejection is caught by the handler's catch block.
AfterTryDelete(ok) == IF ok THEN "responded" ELSE "catch"

NoResult == [kind |-> "none", value |-> Str(<<>>), message |-> <<>>]

SrvIdle ==
    /\ hpc = [svc \in Services |-> "idle"]
    /\ reqKey = [svc \in Services |-> NoKey]
    /\ hres = [svc \in Services |-> NoResult]
    /\ hcaught = [svc \in Services |-> <<>>]
    /\ response = [svc \in Services |-> NoResponse]
    /\ srvLog = <<>>

\* server.js 162-168: const { key } = req.body; if (!key) return 400
GeminiRequest ==
    /\ hpc["gemini"] = "idle"
    /\ \E key \in {NoKey, UploadKey} :
        /\ reqKey' = [reqKey EXCEPT !["gemini"] = key]
        /\ hpc' = [hpc EXCEPT !["gemini"] = IF key = NoKey THEN "responded" ELSE "get"]
        /\ response' = [response EXCEPT !["gemini"] =
                            IF key = NoKey THEN BadRequest ELSE @]
    /\ UNCHANGED <<s3, txVars, stVars, clVars, impl, asmVars, reVars, fileVars, gmVars, keyVars, hres, hcaught, srvLog>>

\* server.js 172-175: await s3.getObject({ Key: key })
GeminiGet ==
    /\ hpc["gemini"] = "get"
    /\ \E ok \in BOOLEAN :
        LET st == GetOutcome(s3, reqKey["gemini"], ok)
        IN /\ srvLog' = Append(srvLog, SrvCall("gemini", "getObject", st))
           /\ hpc' = [hpc EXCEPT !["gemini"] = IF st = "ok" THEN "extract" ELSE "catch"]
           /\ hcaught' = [hcaught EXCEPT !["gemini"] =
                              IF st = "ok" THEN @ ELSE GetError(st)]
    /\ UNCHANGED <<s3, txVars, stVars, clVars, impl, asmVars, reVars, fileVars, gmVars, keyVars, reqKey, hres, response>>

\* server.js 182-193: await s3.deleteObject({ Key: key }) inside the try, then
\* res.json with success: true
GeminiDelete ==
    /\ hpc["gemini"] = "delete"
    /\ \E ok \in BOOLEAN :
        /\ srvLog' = Append(srvLog,
               SrvCall("gemini", "deleteObject", IF ok THEN "ok" ELSE "error"))
        /\ s3' = IF ok THEN s3 \ {reqKey["gemini"]} ELSE s3
        /\ hpc' = [hpc EXCEPT !["gemini"] = AfterTryDelete(ok)]
        /\ hcaught' = [hcaught EXCEPT !["gemini"] =
                           IF ok THEN @ ELSE <<"S3 delete error">>]
        /\ response' = [response EXCEPT !["gemini"] =
                            IF AfterTryDelete(ok) = "responded"
                              THEN SuccessBody("gemini", hres["gemini"].value)
                              ELSE @]
    /\ UNCHANGED <<txVars, stVars, clVars, impl, asmVars, reVars, fileVars, gmVars, keyVars, reqKey, hres>>

\* A catch block that answers without a delete.
GeminiCatch_NoDelete ==
    /\ hpc["gemini"] = "catch"
    /\ hpc' = [hpc EXCEPT !["gemini"] = "responded"]
    /\ response' = [response EXCEPT !["gemini"] = FailureBody("gemini", hcaught["gemini"])]
    /\ UNCHANGED <<s3, txVars, stVars, clVars, impl, asmVars, reVars, fileVars, gmVars, keyVars, reqKey, hres, hcaught, srvLog>>

\* server.js 194-213: catch (error): deleteObject with its error ignored, then
\* res.json with success: false and error.message
GeminiCatch ==
    /\ hpc["gemini"] = "catch"
    /\ \E ok \in BOOLEAN :
        /\ srvLog' = Append(srvLog,
               SrvCall("gemini", "deleteObject", IF ok THEN "ok" ELSE "error"))
        /\ s3' = IF ok THEN s3 \ {reqKey["gemini"]} ELSE s3
    /\ hpc' = [hpc EXCEPT !["gemini"] = "responded"]
    /\ response' = [response EXCEPT !["gemini"] = FailureBody("gemini", hcaught["gemini"])]
    /\ UNCHANGED <<txVars, stVars, clVars, impl, asmVars, reVars, fileVars, gmVars, keyVars, reqKey, hres, hcaught>>

\* server.js 178: await geminiHelper.extractTextFromPDF(fileBuffer, ...)
GeminiExtract ==
    /\ hpc["gemini"] = "extract"
    /\ \E ok \in BOOLEAN :
        IF ok
        THEN /\ hres' = [hres EXCEPT !["gemini"] =
                    [kind |-> "returned",
                     value |-> GeminiReturn(variant, ModelText),
                     message |-> <<>>]]
             /\ hpc' = [hpc EXCEPT !["gemini"] = "delete"]
             /\ hcaught' = hcaught
        ELSE /\ hres' = [hres EXCEPT !["gemini"] =
                    [kind |-> "thrown", value |-> Str(<<>>),
                     message |-> WrapGemini(<<"model error">>)]]
             /\ hpc' = [hpc EXCEPT !["gemini"] = "catch"]
             /\ hcaught' = [hcaught EXCEPT !["gemini"] =
                               WrapGemini(<<"model error">>)]
    /\ UNCHANGED <<s3, txVars, stVars, clVars, impl, asmVars, reVars, fileVars, gmVars, keyVars, reqKey, response, srvLog>>

\* server.js 228-234: const { key } = req.body; if (!key) return 400
TextractRequest ==
    /\ hpc["textract"] = "idle"
    /\ \E key \in {NoKey, UploadKey} :
        /\ reqKey' = [reqKey EXCEPT !["textract"] = key]
        /\ hpc' = [hpc EXCEPT !["textract"] = IF key = NoKey THEN "responded" ELSE "get"]
        /\ response' = [response EXCEPT !["textract"] =
                            IF key = NoKey THEN BadRequest ELSE @]
    /\ UNCHANGED <<s3, txVars, stVars, clVars, impl, asmVars, reVars, fileVars, gmVars, keyVars, hres, hcaught, srvLog>>

\* server.js 238-241: await s3.getObject({ Key: key })
TextractGet ==
    /\ hpc["textract"] = "get"
    /\ \E ok \in BOOLEAN :
        LET st == GetOutcome(s3, reqKey["textract"], ok)
        IN /\ srvLog' = Append(srvLog, SrvCall("textract", "getObject", st))
           /\ hpc' = [hpc EXCEPT !["textract"] = IF st = "ok" THEN "extract" ELSE "catch"]
           /\ hcaught' = [hcaught EXCEPT !["textract"] =
                              IF st = "ok" THEN @ ELSE GetError(st)]
    /\ UNCHANGED <<s3, txVars, stVars, clVars, impl, asmVars, reVars, fileVars, gmVars, keyVars, reqKey, hres, response>>

\* server.js 249-260: await s3.deleteObject({ Key: key }) inside the try, then
\* res.json with success: true
TextractDelete ==
    /\ hpc["textract"] = "delete"
    /\ \E ok \in BOOLEAN :
        /\ srvLog' = Append(srvLog,
               SrvCall("textract", "deleteObject", IF ok THEN "ok" ELSE "error"))
        /\ s3' = IF ok THEN s3 \ {reqKey["textract"]} ELSE s3
        /\ hpc' = [hpc EXCEPT !["textract"] = AfterTryDelete(ok)]
        /\ hcaught' = [hcaught EXCEPT !["textract"] =
                           IF ok THEN @ ELSE <<"S3 delete error">>]
        /\ response' = [response EXCEPT !["textract"] =
                            IF AfterTryDelete(ok) = "responded"
                              THEN SuccessBody("textract", hres["textract"].value)
                              ELSE @]
    /\ UNCHANGED <<txVars, stVars, clVars, impl, asmVars, reVars, fileVars, gmVars, keyVars, reqKey, hres>>

\* server.js 261-280: catch (error): deleteObject with its error ignored, then
\* res.json with success: false and error.message
TextractCatch ==
    /\ hpc["textract"] = "catch"
    /\ \E ok \in BOOLEAN :
        /\ srvLog' = Append(srvLog,
               SrvCall("textract", "deleteObject", IF ok THEN "ok" ELSE "error"))
        /\ s3' = IF ok THEN s3 \ {reqKey["textract"]} ELSE s3
    /\ hpc' = [hpc EXCEPT !["textract"] = "responded"]
    /\ response' = [response EXCEPT !["textract"] = FailureBody("textract", hcaught["textract"])]
    /\ UNCHANGED <<txVars, stVars, clVars, impl, asmVars, reVars, fileVars, gmVars, keyVars, reqKey, hres, hcaught>>

\* server.js 245: textractHelper.extractTextFromPDF(fileBuffer, filename)
\* is entered.
TextractCall ==
    /\ hpc["textract"] = "extract"
    /\ tpc = "idle"
    /\ tpc' = "put"
    /\ hpc' = [hpc EXCEPT !["textract"] = "helper"]
    /\ UNCHANGED <<s3, jobPages, jobStatus, extractedText, nextToken, caught,
                   txOutcome, txLog, stVars, clVars, impl, asmVars, reVars, fileVars, gmVars, keyVars, reqKey, hres, hcaught,
                   response, srvLog>>

\* server.js 245: the awaited helper call returns or throws.
TextractReturn ==
    /\ hpc["textract"] = "helper"
    /\ tpc \in {"returned", "thrown"}
    /\ hres' = [hres EXCEPT !["textract"] =
                   [kind |-> txOutcome.kind, value |-> Str(txOutcome.text),
                    message |-> txOutcome.message]]
    /\ hpc' = [hpc EXCEPT !["textract"] =
                  IF tpc = "returned" THEN "delete" ELSE "catch"]
    /\ hcaught' = [hcaught EXCEPT !["textract"] =
                      IF tpc = "returned" THEN @ ELSE txOutcome.message]
    /\ UNCHANGED <<s3, txVars, stVars, clVars, impl, asmVars, reVars, fileVars, gmVars, keyVars, reqKey, response, srvLog>>

\* ------------------------------------------------------------------------
\* processFile and the display functions (src/public/app.js)
\* ------------------------------------------------------------------------
\* data.time values of a response
Times == {500, 2345}

\* The parsed body of a response; a missing `success` reads as falsy, a
\* missing or null `error` as the falsy <<>>.
Data(success, error, text, time) ==
    [success |-> success, error |-> error, text |-> text, time |-> time]

Undefined == [type |-> "undefined", value |-> <<>>]

\* The bodies a handler can answer with (SuccessBody, FailureBody,
\* BadRequest); only the gemini helper can return an object as text.
ResponseData(svc) ==
    {Data(TRUE, <<>>, Str(pieces), t) : pieces \in {<<>>, <<"text">>}, t \in Times}
    \cup (IF svc = "gemini"
            THEN {Data(TRUE, <<>>, Obj(<<"text">>), t) : t \in Times}
            ELSE {})
    \cup {Data(FALSE, <<"extraction failed">>, Str(<<>>), 500),
          Data(FALSE, <<"S3 key required">>, Undefined, 0)}

\* A request settles with a parsed body, or fetch / res.json() rejects.
Outcomes(svc) ==
    {[kind |-> "data", data |-> d, message |-> <<>>] : d \in ResponseData(svc)}
    \cup {[kind |-> "rejected", data |-> Data(FALSE, <<>>, Undefined, 0),
           message |-> <<"Failed to fetch">>]}

NoOutcomeYet == [kind |-> "none", data |-> Data(FALSE, <<>>, Undefined, 0),
                 message |-> <<>>]

\* formatTime(ms)
FormatTime(ms) ==
    IF ms < 1000 THEN [n |-> ms, unit |-> "ms"]
                 ELSE [n |-> (ms + 5) \div 10, unit |-> "s/100"]

NoTime(mark) == [n |-> 0, unit |-> mark]

PlaceholderPanel ==
    [text |-> <<"Extracted text will appear here...">>, time |-> NoTime("-"),
     chars |-> 0]

\* lines 123-126: the char count is left as it was
ProcessingPanel(old) ==
    [text |-> <<"Processing...">>, time |-> NoTime("..."), chars |-> old.chars]

\* the error branch of displayGeminiResult / displayTextractResult
FailurePanel(error) ==
    [text |-> <<"Error: ">> \o
                (IF error # <<>> THEN error ELSE <<"Processing failed">>),
     time |-> NoTime("Failed"), chars |-> 0]

\* displayGeminiResult / displayTextractResult: the panel after the call
\* and whether the call threw.  The success branch writes the text and the
\* time and then evaluates data.text.length.toLocaleString(), which throws
\* a TypeError unless data.text is a string.
Display(old, data) ==
    IF ~data.success \/ data.error # <<>>
    THEN [panel |-> FailurePanel(data.error), threw |-> FALSE]
    ELSE IF data.text.type = "string"
    THEN [panel |-> [text |-> IF data.text.value # <<>>
                                THEN data.text.value
                                ELSE <<"No text extracted">>,
                     time |-> FormatTime(data.time),
                     chars |-> Len(data.text.value)],
          threw |-> FALSE]
    ELSE [panel |-> [text |-> IF data.text.type = "object"
                                THEN <<"[object Object]">>
                                ELSE <<"No text extracted">>,
                     time |-> FormatTime(data.time),
                     chars |-> old.chars],
          threw |-> TRUE]

TypeErrorMessage == <<"Cannot read properties of undefined">>

\* .then(data => display(data)).catch(error => display({ success: false,
\* error: error.message }))
AfterChain(old, outcome) ==
    IF outcome.kind = "rejected"
    THEN Display(old, Data(FALSE, outcome.message, Undefined, 0)).panel
    ELSE LET first == Display(old, outcome.data)
         IN IF first.threw
              THEN Display(first.panel,
                           Data(FALSE, TypeErrorMessage, Undefined, 0)).panel
              ELSE first.panel

\* catch (error) of processFile: both panels show 'Upload failed: ...'
UploadFailed(msg) ==
    [svc \in Services |->
        Display(panel[svc],
                Data(FALSE, <<"Upload failed: ">> \o msg, Undefined, 0)).panel]

ClIdle ==
    /\ selectedFile = FALSE
    /\ cpc = "idle"
    /\ uploadKey = NoKey
    /\ chain = [svc \in Services |-> "none"]
    /\ arrived = [svc \in Services |-> NoOutcomeYet]
    /\ sentKey = [svc \in Services |-> NoKey]
    /\ panel = [svc \in Services |-> PlaceholderPanel]
    /\ clLog = <<>>
    /\ wasReset = FALSE

\* A request of processFile as the log keeps it.
ClCall(op, st, key) == [op |-> op, st |-> st, key |-> key]

\* selectedFile.type when selectedFile is null
NullErrorMessage == <<"Cannot read properties of null">>

\* lines 108-126: if (!selectedFile) return; reset the panels to loading.
\* The key and the two promises are locals of the new run.
ProcessFileStart ==
    /\ cpc = "idle"
    /\ selectedFile
    /\ cpc' = "presign"
    /\ panel' = [svc \in Services |-> ProcessingPanel(panel[svc])]
    /\ uploadKey' = NoKey
    /\ chain' = [svc \in Services |-> "none"]
    /\ arrived' = [svc \in Services |-> NoOutcomeYet]
    /\ sentKey' = [svc \in Services |-> NoKey]
    /\ clLog' = <<>>
    /\ wasReset' = FALSE
    /\ UNCHANGED <<s3, txVars, stVars, srvVars, impl, asmVars, reVars, fileVars, gmVars, keyVars, selectedFile>>

\* lines 130-154: the presigned-url request settles; on success the upload
\* is issued with selectedFile as body and selectedFile.type as header,
\* which throws when selectedFile is null.
PresignSettled ==
    /\ cpc = "presign"
    /\ \E r \in {"ok", "not ok", "rejected"} :
        /\ clLog' = Append(clLog, ClCall("presigned-url", r,
                                         IF r = "ok" THEN UploadKey ELSE NoKey))
        /\ IF r = "ok" /\ selectedFile
           THEN /\ uploadKey' = UploadKey
                /\ cpc' = "upload"
                /\ panel' = panel
           ELSE /\ uploadKey' = IF r = "ok" THEN UploadKey ELSE uploadKey
                /\ cpc' = "done"
                /\ panel' = UploadFailed(
                      IF r = "not ok" THEN <<"Failed to get upload URL">>
                      ELSE IF r = "rejected" THEN <<"Failed to fetch">>
                      ELSE NullErrorMessage)
    /\ UNCHANGED <<s3, txVars, stVars, srvVars, impl, asmVars, reVars, fileVars, gmVars, keyVars, selectedFile, chain, arrived,
                   sentKey, wasReset>>

\* An upload whose status is not looked at: the extraction requests are
\* issued whenever the upload request got a response.
UploadSettled_IgnoresStatus ==
    /\ cpc = "upload"
    /\ \E r \in {"ok", "not ok", "rejected"} :
        IF r # "rejected"
        THEN /\ cpc' = "extract"
             /\ chain' = [svc \in Services |-> "pending"]
             /\ sentKey' = [svc \in Services |-> uploadKey]
             /\ panel' = panel
             /\ clLog' = clLog \o <<ClCall("upload", r, uploadKey),
                                    ClCall("gemini-s3", "sent", uploadKey),
                                    ClCall("textract-s3", "sent", uploadKey)>>
        ELSE /\ cpc' = "done"
             /\ chain' = chain
             /\ sentKey' = sentKey
             /\ panel' = UploadFailed(<<"Failed to fetch">>)
             /\ clLog' = Append(clLog, ClCall("upload", r, uploadKey))
    /\ UNCHANGED <<s3, txVars, stVars, srvVars, impl, asmVars, reVars, fileVars, gmVars, keyVars, selectedFile, uploadKey,
                   arrived, wasReset>>

\* lines 148-191: the upload settles; on success both extraction requests
\* are issued with the key, Gemini's first
UploadSettled ==
    /\ cpc = "upload"
    /\ \E r \in {"ok", "not ok", "rejected"} :
        IF r = "ok"
        THEN /\ cpc' = "extract"
             /\ chain' = [svc \in Services |-> "pending"]
             /\ sentKey' = [svc \in Services |-> uploadKey]
             /\ panel' = panel
             /\ clLog' = clLog \o <<ClCall("upload", r, uploadKey),
                                    ClCall("gemini-s3", "sent", uploadKey),
                                    ClCall("textract-s3", "sent", uploadKey)>>
        ELSE /\ cpc' = "done"
             /\ chain' = chain
             /\ sentKey' = sentKey
             /\ panel' = UploadFailed(IF r = "not ok"
                                        THEN <<"Failed to upload file to S3">>
                                        ELSE <<"Failed to fetch">>)
             /\ clLog' = Append(clLog, ClCall("upload", r, uploadKey))
    /\ UNCHANGED <<s3, txVars, stVars, srvVars, impl, asmVars, reVars, fileVars, gmVars, keyVars, selectedFile, uploadKey,
                   arrived, wasReset>>

\* The two requests awaited one after the other: the chain of Gemini runs
\* when the request of Textract has settled.
GeminiSettled_AfterTextract ==
    /\ cpc = "extract"
    /\ chain["gemini"] = "pending"
    /\ chain["textract"] = "fulfilled"
    /\ \E outcome \in Outcomes("gemini") :
        /\ arrived' = [arrived EXCEPT !["gemini"] = outcome]
        /\ panel' = [panel EXCEPT !["gemini"] = AfterChain(@, outcome)]
    /\ chain' = [chain EXCEPT !["gemini"] = "fulfilled"]
    /\ UNCHANGED <<s3, txVars, stVars, srvVars, impl, asmVars, reVars, fileVars, gmVars, keyVars, selectedFile, cpc, uploadKey, clLog, wasReset,
                   sentKey>>

\* lines 161-175: the request of Gemini settles and its then / catch chain runs:
\* display the data; if the request or the display threw, display the
\* failure { success: false, error: error.message }.
GeminiSettled ==
    /\ cpc = "extract"
    /\ chain["gemini"] = "pending"
    /\ \E outcome \in Outcomes("gemini") :
        /\ arrived' = [arrived EXCEPT !["gemini"] = outcome]
        /\ panel' = [panel EXCEPT !["gemini"] = AfterChain(@, outcome)]
    /\ chain' = [chain EXCEPT !["gemini"] = "fulfilled"]
    /\ UNCHANGED <<s3, txVars, stVars, srvVars, impl, asmVars, reVars, fileVars, gmVars, keyVars, selectedFile, cpc, uploadKey, clLog, wasReset,
                   sentKey>>

\* lines 177-191: the request of Textract settles and its then / catch chain runs:
\* display the data; if the request or the display threw, display the
\* failure { success: false, error: error.message }.
TextractSettled ==
    /\ cpc = "extract"
    /\ chain["textract"] = "pending"
    /\ \E outcome \in Outcomes("textract") :
        /\ arrived' = [arrived EXCEPT !["textract"] = outcome]
        /\ panel' = [panel EXCEPT !["textract"] = AfterChain(@, outcome)]
    /\ chain' = [chain EXCEPT !["textract"] = "fulfilled"]
    /\ UNCHANGED <<s3, txVars, stVars, srvVars, impl, asmVars, reVars, fileVars, gmVars, keyVars, selectedFile, cpc, uploadKey, clLog, wasReset,
                   sentKey>>

\* line 194: await Promise.allSettled([geminiPromise, textractPromise])
ProcessFileEnd ==
    /\ cpc = "extract"
    /\ \A svc \in Services : chain[svc] # "pending"
    /\ cpc' = "done"
    /\ UNCHANGED <<s3, txVars, stVars, srvVars, impl, asmVars, reVars, fileVars, gmVars, keyVars, selectedFile, uploadKey, chain,
                   arrived, sentKey, panel, clLog, wasReset>>

\* lines 95-100 and 244-257, resetToUpload(), the handler of the button of
\* the results section: clearFile() and the placeholders.  The section is
\* on display from the start of a run; requests in flight are left alone.
ResetToUpload ==
    /\ cpc # "idle"
    /\ ~wasReset
    /\ selectedFile' = FALSE
    /\ panel' = [svc \in Services |-> PlaceholderPanel]
    /\ wasReset' = TRUE
    /\ cpc' = IF cpc = "done" THEN "idle" ELSE cpc
    /\ UNCHANGED <<s3, txVars, stVars, srvVars, impl, asmVars, reVars, fileVars, gmVars, keyVars, uploadKey, chain, arrived,
                   sentKey, clLog>>

\* ------------------------------------------------------------------------
\* GeminiHelper.extractTextFromPDF (src/gemini-helper.js), two calls at once
\* ------------------------------------------------------------------------
Calls == {1, 2}

NoDir == -1

\* A file of a temporary directory; `by` is the call whose document the
\* content comes from.
File(dir, name, k, by) == [dir |-> dir, name |-> name, k |-> k, by |-> by]

PageFiles(files, dir) == {g \in files : g.dir = dir /\ g.name = "page"}

\* The files `name`-k, k in ks, written into dir with content of `by`.
WriteFiles(files, dir, name, ks, by) ==
    {g \in files : ~(g.dir = dir /\ g.name = name /\ g.k \in ks)}
        \cup {File(dir, name, k, by) : k \in ks}

\* fs.rm(tempDir, { recursive: true, force: true })
RemoveDir(files, dir) == {g \in files : g.dir # dir}

\* stitched-0.png ... of a listing of n pages
StitchedNames(n) == 0..(Ceil(n, pagesPerImage) - 1)

NoGmOutcome == [kind |-> "none", value |-> Str(<<>>), message |-> <<>>]

AfterGenerateError_Retry(v) == "generate"

\* A rejected generateContent is caught at line 144 (sharp) or 320 (canvas).
AfterGenerateError(v) == IF v = "sharp" THEN "catch" ELSE "wrap"

GmIdle ==
    /\ now = 0
    /\ tmpDirs = {}
    /\ tmpFiles = {}
    /\ gpc = [e \in Calls |-> "idle"]
    /\ tempDir = [e \in Calls |-> NoDir]
    /\ docPages = [e \in Calls |-> 0]
    /\ listed = [e \in Calls |-> {}]
    /\ gcaught = [e \in Calls |-> <<>>]
    /\ gOutcome = [e \in Calls |-> NoGmOutcome]
    /\ gLog = [e \in Calls |-> <<>>]

\* The clock advances between any two steps.
Tick ==
    /\ now < MaxClock
    /\ now' = now + 1
    /\ UNCHANGED <<s3, txVars, stVars, srvVars, clVars, impl, asmVars, reVars, fileVars, keyVars, tmpDirs,
                   tmpFiles, gpc, tempDir, docPages, listed, gcaught,
                   gOutcome, gLog>>

\* gemini-helper.js 40 and 192: path.join(os.tmpdir(), `pdf-${Date.now()}`)
GmStart ==
    \E e \in Calls :
        /\ gpc[e] = "idle"
        /\ tempDir' = [tempDir EXCEPT ![e] = now]
        /\ gpc' = [gpc EXCEPT ![e] = "mkdir"]
        /\ UNCHANGED <<s3, txVars, stVars, srvVars, clVars, impl, asmVars, reVars, fileVars, keyVars, now,
                       tmpDirs, tmpFiles, docPages, listed, gcaught,
                       gOutcome, gLog>>

\* gemini-helper.js 45 and 193: await fs.mkdir(tempDir, { recursive: true })
GmMkdir ==
    \E e \in Calls :
        /\ gpc[e] = "mkdir"
        /\ tmpDirs' = tmpDirs \cup {tempDir[e]}
        /\ gLog' = [gLog EXCEPT ![e] = Append(@, Call("mkdir", "ok", 0))]
        /\ gpc' = [gpc EXCEPT ![e] =
                      IF variant = "sharp" THEN "write" ELSE "render"]
        /\ UNCHANGED <<s3, txVars, stVars, srvVars, clVars, impl, asmVars, reVars, fileVars, keyVars, now,
                       tmpFiles, tempDir, docPages, listed, gcaught, gOutcome>>

\* gemini-helper.js 48: await fs.writeFile(pdfPath, fileBuffer)
GmWrite ==
    \E e \in Calls :
        LET ok == tempDir[e] \in tmpDirs
        IN /\ gpc[e] = "write"
           /\ tmpFiles' =
                 IF ok THEN WriteFiles(tmpFiles, tempDir[e], "input.pdf", {0}, e)
                       ELSE tmpFiles
           /\ gLog' = [gLog EXCEPT ![e] =
                 Append(@, Call("writeFile", IF ok THEN "ok" ELSE "error", 0))]
           /\ gpc' = [gpc EXCEPT ![e] = IF ok THEN "convert" ELSE "catch"]
           /\ gcaught' = [gcaught EXCEPT ![e] = IF ok THEN @ ELSE <<"ENOENT">>]
           /\ UNCHANGED <<s3, txVars, stVars, srvVars, clVars, impl, asmVars, reVars, fileVars, keyVars,
                          now, tmpDirs, tempDir, docPages, listed, gOutcome>>

\* gemini-helper.js 58: await convert(pdfPath, opts) renders the document
\* stored at pdfPath into page-k.png files of the directory.
GmConvert ==
    \E e \in Calls, rendered \in BOOLEAN :
        LET src == {g \in tmpFiles :
                       g.dir = tempDir[e] /\ g.name = "input.pdf"}
            ok == rendered /\ src # {}
            by == (CHOOSE g \in src : TRUE).by
        IN /\ gpc[e] = "convert"
           /\ tmpFiles' =
                 IF ok THEN WriteFiles(tmpFiles, tempDir[e], "page",
                                       1..docPages[by], by)
                       ELSE tmpFiles
           /\ gLog' = [gLog EXCEPT ![e] =
                 Append(@, Call("convert", IF ok THEN "ok" ELSE "error", 0))]
           /\ gpc' = [gpc EXCEPT ![e] = IF ok THEN "readdir" ELSE "catch"]
           /\ gcaught' = [gcaught EXCEPT ![e] =
                 IF ok THEN @ ELSE <<"render error">>]
           /\ UNCHANGED <<s3, txVars, stVars, srvVars, clVars, impl, asmVars, reVars, fileVars, keyVars,
                          now, tmpDirs, tempDir, docPages, listed, gOutcome>>

\* gemini-helper.js 61-69: const files = await fs.readdir(tempDir), filtered
\* to the page-*.png files
GmReaddir ==
    \E e \in Calls :
        LET ok == tempDir[e] \in tmpDirs
        IN /\ gpc[e] = "readdir"
           /\ listed' = [listed EXCEPT ![e] =
                 IF ok THEN PageFiles(tmpFiles, tempDir[e]) ELSE @]
           /\ gLog' = [gLog EXCEPT ![e] =
                 Append(@, Call("readdir", IF ok THEN "ok" ELSE "error", 0))]
           /\ gpc' = [gpc EXCEPT ![e] = IF ok THEN "stitch" ELSE "catch"]
           /\ gcaught' = [gcaught EXCEPT ![e] = IF ok THEN @ ELSE <<"ENOENT">>]
           /\ UNCHANGED <<s3, txVars, stVars, srvVars, clVars, impl, asmVars, reVars, fileVars, keyVars,
                          now, tmpDirs, tmpFiles, tempDir, docPages, gOutcome>>

\* A failed rendering is not thrown: the batch loop runs on what is there.
GmRender_ContinuesAfterFailure ==
    \E e \in Calls, ok \in BOOLEAN :
        LET pages == {File(tempDir[e], "page", k, e) : k \in 1..docPages[e]}
        IN /\ gpc[e] = "render"
           /\ tmpDirs' = IF ok THEN tmpDirs \cup {tempDir[e]} ELSE tmpDirs
           /\ tmpFiles' =
                 IF ok THEN WriteFiles(tmpFiles, tempDir[e], "page",
                                       1..docPages[e], e)
                       ELSE tmpFiles
           /\ listed' = [listed EXCEPT ![e] = IF ok THEN pages ELSE @]
           /\ gLog' = [gLog EXCEPT ![e] =
                 Append(@, Call("pdfToPng", IF ok THEN "ok" ELSE "error", 0))]
           /\ gpc' = [gpc EXCEPT ![e] = "stitch"]
           /\ gcaught' = [gcaught EXCEPT ![e] =
                 IF ok THEN @ ELSE <<"render error">>]
           /\ UNCHANGED <<s3, txVars, stVars, srvVars, clVars, impl, asmVars, reVars, fileVars, keyVars,
                          now, tempDir, docPages, gOutcome>>

\* gemini-helper.js 199-204: const pngPages = await pdfToPng(pdfBuffer,
\* { outputFolder: tempDir }) renders the call's own buffer, writes the
\* pages into the directory and returns them.
GmRender ==
    \E e \in Calls, ok \in BOOLEAN :
        LET pages == {File(tempDir[e], "page", k, e) : k \in 1..docPages[e]}
        IN /\ gpc[e] = "render"
           /\ tmpDirs' = IF ok THEN tmpDirs \cup {tempDir[e]} ELSE tmpDirs
           /\ tmpFiles' =
                 IF ok THEN WriteFiles(tmpFiles, tempDir[e], "page",
                                       1..docPages[e], e)
                       ELSE tmpFiles
           /\ listed' = [listed EXCEPT ![e] = IF ok THEN pages ELSE @]
           /\ gLog' = [gLog EXCEPT ![e] =
                 Append(@, Call("pdfToPng", IF ok THEN "ok" ELSE "error", 0))]
           /\ gpc' = [gpc EXCEPT ![e] = IF ok THEN "stitch" ELSE "catch"]
           /\ gcaught' = [gcaught EXCEPT ![e] =
                 IF ok THEN @ ELSE <<"render error">>]
           /\ UNCHANGED <<s3, txVars, stVars, srvVars, clVars, impl, asmVars, reVars, fileVars, keyVars,
                          now, tempDir, docPages, gOutcome>>

\* The batch loop.  gemini-helper.js 75-119 reads every listed page file
\* and writes stitched-k.png into the directory; 214-273 works on the
\* returned pages in memory.
GmStitch ==
    \E e \in Calls :
        LET ok == variant = "sharp" =>
                     (listed[e] \subseteq tmpFiles /\ tempDir[e] \in tmpDirs)
        IN /\ gpc[e] = "stitch"
           /\ tmpFiles' =
                 IF variant = "sharp" /\ ok
                 THEN WriteFiles(tmpFiles, tempDir[e], "stitched",
                                 StitchedNames(Cardinality(listed[e])), e)
                 ELSE tmpFiles
           /\ gLog' = [gLog EXCEPT ![e] =
                 Append(@, Call("stitch", IF ok THEN "ok" ELSE "error", 0))]
           /\ gpc' = [gpc EXCEPT ![e] =
                 IF ~ok THEN "catch"
                 ELSE IF variant = "sharp" THEN "generate" ELSE "rm"]
           /\ gcaught' = [gcaught EXCEPT ![e] = IF ok THEN @ ELSE <<"ENOENT">>]
           /\ UNCHANGED <<s3, txVars, stVars, srvVars, clVars, impl, asmVars, reVars, fileVars, keyVars,
                          now, tmpDirs, tempDir, docPages, listed, gOutcome>>

\* gemini-helper.js 122-138 and 312-319: the sharp variant reads the
\* stitched files back, then both issue one generateContent request; the
\* canvas variant returns { text, stitchedPdf } right after it.
GmGenerate ==
    \E e \in Calls, answered \in BOOLEAN :
        LET read == variant = "sharp" =>
                       \A k \in StitchedNames(Cardinality(listed[e])) :
                          \E g \in tmpFiles :
                             /\ g.dir = tempDir[e]
                             /\ g.name = "stitched"
                             /\ g.k = k
            ok == read /\ answered
        IN /\ gpc[e] = "generate"
           /\ gLog' = [gLog EXCEPT ![e] =
                 IF read
                 THEN Append(@, Call("generateContent",
                                     IF ok THEN "ok" ELSE "error", 0))
                 ELSE Append(@, Call("readFile", "error", 0))]
           /\ gpc' = [gpc EXCEPT ![e] =
                 IF ~read THEN "catch"
                 ELSE IF ~ok THEN AfterGenerateError(variant)
                 ELSE IF variant = "sharp" THEN "rm" ELSE "returned"]
           /\ gcaught' = [gcaught EXCEPT ![e] =
                 IF ~read THEN <<"ENOENT">>
                 ELSE IF ~ok THEN <<"model error">> ELSE @]
           /\ gOutcome' = [gOutcome EXCEPT ![e] =
                 IF ok /\ variant # "sharp"
                 THEN [kind |-> "returned",
                       value |-> GeminiReturn(variant, ModelText),
                       message |-> <<>>]
                 ELSE @]
           /\ UNCHANGED <<s3, txVars, stVars, srvVars, clVars, impl, asmVars, reVars, fileVars, keyVars,
                          now, tmpDirs, tmpFiles, tempDir, docPages, listed>>

\* gemini-helper.js 141 and 276: await fs.rm(tempDir, ...) inside the try
\* block; the sharp variant returns the text after it.
GmRm ==
    \E e \in Calls, ok \in BOOLEAN :
        /\ gpc[e] = "rm"
        /\ tmpDirs' = IF ok THEN tmpDirs \ {tempDir[e]} ELSE tmpDirs
        /\ tmpFiles' = IF ok THEN RemoveDir(tmpFiles, tempDir[e]) ELSE tmpFiles
        /\ gLog' = [gLog EXCEPT ![e] =
              Append(@, Call("rm", IF ok THEN "ok" ELSE "error", 0))]
        /\ gpc' = [gpc EXCEPT ![e] =
              IF ~ok THEN "catch"
              ELSE IF variant = "sharp" THEN "returned" ELSE "generate"]
        /\ gcaught' = [gcaught EXCEPT ![e] = IF ok THEN @ ELSE <<"rm error">>]
        /\ gOutcome' = [gOutcome EXCEPT ![e] =
              IF ok /\ variant = "sharp"
              THEN [kind |-> "returned",
                    value |-> GeminiReturn(variant, ModelText),
                    message |-> <<>>]
              ELSE @]
        /\ UNCHANGED <<s3, txVars, stVars, srvVars, clVars, impl, asmVars, reVars, fileVars, keyVars, now,
                       tempDir, docPages, listed>>

\* gemini-helper.js 144-154 and 284-290: the directory is removed, an error
\* of the removal ignored; the sharp variant throws the wrapped error, the
\* canvas variant rethrows to the catch block of extractTextFromPDF.
GmCatch ==
    \E e \in Calls, ok \in BOOLEAN :
        /\ gpc[e] = "catch"
        /\ tmpDirs' = IF ok THEN tmpDirs \ {tempDir[e]} ELSE tmpDirs
        /\ tmpFiles' = IF ok THEN RemoveDir(tmpFiles, tempDir[e]) ELSE tmpFiles
        /\ gLog' = [gLog EXCEPT ![e] =
              Append(@, Call("rm", IF ok THEN "ok" ELSE "ignored", 0))]
        /\ gpc' = [gpc EXCEPT ![e] =
              IF variant = "sharp" THEN "thrown" ELSE "wrap"]
        /\ gOutcome' = [gOutcome EXCEPT ![e] =
              IF variant = "sharp"
              THEN [kind |-> "thrown", value |-> Str(<<>>),
                    message |-> WrapGemini(gcaught[e])]
              ELSE @]
        /\ UNCHANGED <<s3, txVars, stVars, srvVars, clVars, impl, asmVars, reVars, fileVars, keyVars, now,
                       tempDir, docPages, listed, gcaught>>

\* gemini-helper.js 320-323: throw new Error(`Gemini extraction failed: ...`)
GmWrap ==
    \E e \in Calls :
        /\ gpc[e] = "wrap"
        /\ gpc' = [gpc EXCEPT ![e] = "thrown"]
        /\ gOutcome' = [gOutcome EXCEPT ![e] =
              [kind |-> "thrown", value |-> Str(<<>>),
               message |-> WrapGemini(gcaught[e])]]
        /\ UNCHANGED <<s3, txVars, stVars, srvVars, clVars, impl, asmVars, reVars, fileVars, keyVars, now,
                       tmpDirs, tmpFiles, tempDir, docPages, listed, gcaught,
                       gLog>>

\* ------------------------------------------------------------------------
\* Object keys (src/textract-helper.js 29, src/server.js 134)
\* ------------------------------------------------------------------------
\* A filename that is missing from the body, or empty: falsy in `!filename`.
NoFilename == <<>>

NoUrlRequest == [filename |-> NoFilename, contentType |-> "none"]

\* res.status(400).json({ error: 'Invalid request. PDF filename required.' })
InvalidRequest ==
    [status |-> 400,
     body |-> [error |-> <<"Invalid request. PDF filename required.">>]]

\* s3.getSignedUrlPromise('putObject', params)
SignedUrl(key, contentType) ==
    [operation |-> "putObject", Key |-> key, ContentType |-> contentType,
     Expires |-> 300]

\* res.json({ success: true, uploadUrl, key, bucket })
UrlBody(key, contentType) ==
    [status |-> 200,
     body |-> [success |-> TRUE, uploadUrl |-> SignedUrl(key, contentType),
               key |-> key, bucket |-> "AWS_REPORT_BUCKET"]]

\* res.status(500).json({ success: false, error: error.message })
UrlError ==
    [status |-> 500, body |-> [success |-> FALSE, error |-> <<"signing error">>]]

KeyIdle ==
    /\ issued = {}
    /\ keyLog = <<>>
    /\ urlRequest = NoUrlRequest
    /\ urlResponse = NoResponse

\* Strings are sequences of characters here.  uuidv4() returns strings of
\* one fixed length and never one it has returned before.
Uuids == {<<a, b>> : a \in {"0", "f"}, b \in {"0", "f"}}

Uuidv4(used) == Uuids \ used

\* req.body.filename / req.file.originalname
Filenames == {<<"d">>, <<"0", "0", "-", "d">>}

ContentTypes == {"application/pdf", "image/png"}

\* `uploads/${uuidv4()}-${filename}`
UploadKeyOf(u, filename) == <<"uploads", "/">> \o u \o <<"-">> \o filename

TempKeyOf_NoUuid(u, originalFilename) ==
    <<"textract-temp", "/">> \o originalFilename

\* `textract-temp/${uuidv4()}-${originalFilename}`
TempKeyOf(u, originalFilename) ==
    <<"textract-temp", "/">> \o u \o <<"-">> \o originalFilename

\* key.split('/').pop()
LastSegment(key) ==
    LET slashes == {i \in DOMAIN key : key[i] = "/"}
    IN IF slashes = {} THEN key
       ELSE SubSeq(key, Max(slashes) + 1, Len(key))

KeyEntry(by, name, key) == [by |-> by, name |-> name, key |-> key]

\* The names the helper is called with: the uploaded file's name
\* (server.js 100) or the last segment of a staged key (server.js 244-245).
HelperNames(log) ==
    Filenames \cup
        {LastSegment(log[i].key) : i \in {j \in DOMAIN log : log[j].by = "presign"}}

\* A handler that builds the key before it validates the body.
PresignedUrl_ValidatesLate ==
    \E filename \in Filenames \cup {NoFilename}, contentType \in ContentTypes :
        /\ Len(keyLog) < MaxKeys
        /\ urlRequest' = [filename |-> filename, contentType |-> contentType]
        /\ \E u \in Uuidv4(issued), ok \in BOOLEAN :
              /\ issued' = issued \cup {u}
              /\ keyLog' = Append(keyLog,
                    KeyEntry("presign", filename, UploadKeyOf(u, filename)))
              /\ urlResponse' =
                    IF filename = NoFilename \/ contentType # "application/pdf"
                      THEN InvalidRequest
                    ELSE IF ok THEN UrlBody(UploadKeyOf(u, filename), contentType)
                    ELSE UrlError
        /\ UNCHANGED <<s3, txVars, stVars, srvVars, clVars, impl, asmVars, reVars, fileVars, gmVars>>

\* server.js 126-157: POST /api/upload/presigned-url.  The body is
\* validated first; a valid request builds its key and signs the URL, and a
\* rejected signing is answered by the catch block.
PresignedUrl ==
    \E filename \in Filenames \cup {NoFilename}, contentType \in ContentTypes :
        /\ Len(keyLog) < MaxKeys
        /\ urlRequest' = [filename |-> filename, contentType |-> contentType]
        /\ IF filename = NoFilename \/ contentType # "application/pdf"
           THEN /\ urlResponse' = InvalidRequest
                /\ UNCHANGED <<issued, keyLog>>
           ELSE \E u \in Uuidv4(issued), ok \in BOOLEAN :
                   /\ issued' = issued \cup {u}
                   /\ keyLog' = Append(keyLog,
                         KeyEntry("presign", filename, UploadKeyOf(u, filename)))
                   /\ urlResponse' =
                         IF ok THEN UrlBody(UploadKeyOf(u, filename), contentType)
                               ELSE UrlError
        /\ UNCHANGED <<s3, txVars, stVars, srvVars, clVars, impl, asmVars, reVars, fileVars, gmVars>>

\* textract-helper.js 28-29: extractTextFromPDF(fileBuffer, originalFilename)
\* builds the key of the object it stages.
StageKey ==
    \E originalFilename \in HelperNames(keyLog) :
        /\ Len(keyLog) < MaxKeys
        /\ \E u \in Uuidv4(issued) :
              /\ issued' = issued \cup {u}
              /\ keyLog' = Append(keyLog,
                    KeyEntry("textract", originalFilename,
                             TempKeyOf(u, originalFilename)))
        /\ UNCHANGED <<urlRequest, urlResponse>>
        /\ UNCHANGED <<s3, txVars, stVars, srvVars, clVars, impl, asmVars, reVars, fileVars, gmVars>>

\* ------------------------------------------------------------------------
\* Specification: one call of TextractHelper.extractTextFromPDF
\* ------------------------------------------------------------------------
InitTextract ==
    /\ AsmIdle
    /\ ReIdle
    /\ FileIdle
    /\ GmIdle
    /\ KeyIdle
    /\ s3 = {}
    /\ \E pages \in JobResults : TxInitWith(pages, "put")
    /\ StIdle
    /\ SrvIdle
    /\ ClIdle

NextTextract ==
    \/ TxPut
    \/ TxStart
    \/ TxSleep
    \/ TxPoll
    \/ TxFetch
    \/ TxCleanup
    \/ TxCatch

SpecTextract == InitTextract /\ [][NextTextract]_vars

\* ------------------------------------------------------------------------
\* Specification: one run of the batch loop of a stitching routine
\* ------------------------------------------------------------------------
InitStitch ==
    /\ AsmIdle
    /\ ReIdle
    /\ FileIdle
    /\ GmIdle
    /\ KeyIdle
    /\ s3 = {}
    /\ TxIdle
    /\ SrvIdle
    /\ ClIdle
    /\ variant \in Variants
    /\ \E sizes \in SeqsUpTo(PageSizes, MaxPages) :
          IF variant = "sharp"
          THEN \E files \in Listings(Numbered(sizes)) :
                  pageImages = SortByPageNumber(files)
          ELSE pageImages = Numbered(sizes)
    /\ si = 0
    /\ stitchedImages = <<>>

NextStitch ==
    \/ SharpStep
    \/ CanvasStep
    \/ PdfLibStep
    \/ BrowserStep
    \/ PdfLibReassemble
    \/ JsPdfReassemble

SpecStitch == InitStitch /\ [][NextStitch]_vars

\* ------------------------------------------------------------------------
\* Specification: the same routine called twice on the same document
\* ------------------------------------------------------------------------
InitRestitch ==
    /\ AsmIdle
    /\ FileIdle
    /\ GmIdle
    /\ KeyIdle
    /\ s3 = {}
    /\ TxIdle
    /\ SrvIdle
    /\ ClIdle
    /\ variant \in Variants
    /\ \E sizes \in SeqsUpTo(RunPageSizes, MaxRunPages) :
          IF variant = "sharp"
          THEN \E files1 \in Listings(Numbered(sizes)),
                  files2 \in Listings(Numbered(sizes)) :
                  /\ pageImages = SortByPageNumber(files1)
                  /\ pageImages2 = SortByPageNumber(files2)
          ELSE /\ pageImages = Numbered(sizes)
               /\ pageImages2 = Numbered(sizes)
    /\ si = 0
    /\ stitchedImages = <<>>
    /\ si2 = 0
    /\ stitchedImages2 = <<>>

NextRestitch ==
    \/ SharpStep
    \/ CanvasStep
    \/ PdfLibStep
    \/ BrowserStep
    \/ RestitchStep

SpecRestitch == InitRestitch /\ [][NextRestitch]_vars

\* ------------------------------------------------------------------------
\* Specification: the two S3 handlers serving one staged document
\* ------------------------------------------------------------------------
\* The documents the handlers are run on.
ServerJobResults ==
    {<< <<[BlockType |-> "LINE", Text |-> "a"]>> >>,
     << <<[BlockType |-> "WORD", Text |-> "w"]>>,
        <<[BlockType |-> "LINE", Text |-> "b"]>> >>}

InitServer ==
    /\ AsmIdle
    /\ ReIdle
    /\ FileIdle
    /\ GmIdle
    /\ KeyIdle
    /\ s3 = {UploadKey}
    /\ \E pages \in ServerJobResults : TxInitWith(pages, "idle")
    /\ SrvIdle
    /\ ClIdle
    /\ variant \in {"sharp", "canvas"}
    /\ pageImages = <<>>
    /\ si = 0
    /\ stitchedImages = <<>>

NextServer ==
    \/ GeminiRequest
    \/ GeminiGet
    \/ GeminiExtract
    \/ GeminiDelete
    \/ GeminiCatch
    \/ TextractRequest
    \/ TextractGet
    \/ TextractCall
    \/ TextractReturn
    \/ TextractDelete
    \/ TextractCatch
    \/ TxPut
    \/ TxStart
    \/ TxSleep
    \/ TxPoll
    \/ TxFetch
    \/ TxCleanup
    \/ TxCatch

SpecServer == InitServer /\ [][NextServer]_vars

\* ------------------------------------------------------------------------
\* Specification: the three endpoints of the direct-upload flow
\* ------------------------------------------------------------------------
\* uuidv4() values in the order earlier requests received them.
UuidSeq == << <<"0", "0">>, <<"0", "f">>, <<"f", "0">>, <<"f", "f">> >>

\* The keys the server has built for earlier presigned-url requests.
EarlierKeys ==
    [i \in 1..(MaxKeys - 1) |->
        KeyEntry("presign", <<"d">>, UploadKeyOf(UuidSeq[i], <<"d">>))]

InitEndpoints ==
    /\ AsmIdle
    /\ ReIdle
    /\ FileIdle
    /\ GmIdle
    /\ issued = {UuidSeq[i] : i \in 1..(MaxKeys - 1)}
    /\ keyLog = EarlierKeys
    /\ urlRequest = NoUrlRequest
    /\ urlResponse = NoResponse
    /\ s3 = {UploadKey}
    /\ \E pages \in ServerJobResults : TxInitWith(pages, "idle")
    /\ SrvIdle
    /\ ClIdle
    /\ variant \in {"sharp", "canvas"}
    /\ pageImages = <<>>
    /\ si = 0
    /\ stitchedImages = <<>>

NextEndpoints ==
    \/ PresignedUrl
    \/ GeminiRequest
    \/ GeminiGet
    \/ GeminiExtract
    \/ GeminiDelete
    \/ GeminiCatch
    \/ TextractRequest
    \/ TextractGet
    \/ TextractCall
    \/ TextractReturn
    \/ TextractDelete
    \/ TextractCatch
    \/ TxPut
    \/ TxStart
    \/ TxSleep
    \/ TxPoll
    \/ TxFetch
    \/ TxCleanup
    \/ TxCatch

SpecEndpoints == InitEndpoints /\ [][NextEndpoints]_vars

\* ------------------------------------------------------------------------
\* Specification: one run of processFile in the browser
\* ------------------------------------------------------------------------
InitClient ==
    /\ AsmIdle
    /\ ReIdle
    /\ FileIdle
    /\ GmIdle
    /\ KeyIdle
    /\ s3 = {}
    /\ TxIdle
    /\ StIdle
    /\ SrvIdle
    /\ selectedFile = FALSE
    /\ cpc = "idle"
    /\ uploadKey = NoKey
    /\ chain = [svc \in Services |-> "none"]
    /\ arrived = [svc \in Services |-> NoOutcomeYet]
    /\ sentKey = [svc \in Services |-> NoKey]
    /\ panel = [svc \in Services |-> PlaceholderPanel]
    /\ clLog = <<>>
    /\ wasReset = FALSE

NextClient ==
    \/ HandleFile
    \/ UploadSingle
    \/ LegacyUploadSingle
    \/ ProcessFileStart
    \/ PresignSettled
    \/ UploadSettled
    \/ GeminiSettled
    \/ TextractSettled
    \/ ProcessFileEnd

SpecClient == InitClient /\ [][NextClient]_vars

\* ------------------------------------------------------------------------
\* Specification: processFile and the button of the results section
\* ------------------------------------------------------------------------
NextReset ==
    \/ HandleFile
    \/ ProcessFileStart
    \/ PresignSettled
    \/ UploadSettled
    \/ GeminiSettled
    \/ TextractSettled
    \/ ProcessFileEnd
    \/ ResetToUpload

SpecReset == InitClient /\ [][NextReset]_vars

\* ------------------------------------------------------------------------
\* Specification: two concurrent calls of GeminiHelper.extractTextFromPDF
\* ------------------------------------------------------------------------
InitGemini ==
    /\ AsmIdle
    /\ ReIdle
    /\ FileIdle
    /\ s3 = {}
    /\ TxIdle
    /\ SrvIdle
    /\ ClIdle
    /\ KeyIdle
    /\ variant \in {"sharp", "canvas"}
    /\ pageImages = <<>>
    /\ si = 0
    /\ stitchedImages = <<>>
    /\ now = 0
    /\ tmpDirs = {}
    /\ tmpFiles = {}
    /\ gpc = [e \in Calls |-> "idle"]
    /\ tempDir = [e \in Calls |-> NoDir]
    /\ docPages \in [Calls -> 1..MaxDocPages]
    /\ listed = [e \in Calls |-> {}]
    /\ gcaught = [e \in Calls |-> <<>>]
    /\ gOutcome = [e \in Calls |-> NoGmOutcome]
    /\ gLog = [e \in Calls |-> <<>>]

NextGemini ==
    \/ Tick
    \/ GmStart
    \/ GmMkdir
    \/ GmWrite
    \/ GmConvert
    \/ GmReaddir
    \/ GmRender
    \/ GmStitch
    \/ GmGenerate
    \/ GmRm
    \/ GmCatch
    \/ GmWrap

SpecGemini == InitGemini /\ [][NextGemini]_vars

\* ------------------------------------------------------------------------
\* Specification: the object keys built by the server and the helper
\* ------------------------------------------------------------------------
InitKeys ==
    /\ AsmIdle
    /\ ReIdle
    /\ FileIdle
    /\ s3 = {}
    /\ TxIdle
    /\ StIdle
    /\ SrvIdle
    /\ ClIdle
    /\ GmIdle
    /\ KeyIdle

NextKeys ==
    \/ PresignedUrl
    \/ StageKey

SpecKeys == InitKeys /\ [][NextKeys]_vars

\* ------------------------------------------------------------------------
\* Specification: the polling loop of both TextractHelper classes
\* ------------------------------------------------------------------------
\* Jobs of one to MaxResultPages result pages, one LINE block each.
PollingJobResults ==
    {[p \in 1..k |-> <<[BlockType |-> "LINE", Text |-> "a"]>>] :
        k \in 1..MaxResultPages}

InitPolling ==
    /\ AsmIdle
    /\ ReIdle
    /\ FileIdle
    /\ s3 = {}
    /\ StIdle
    /\ SrvIdle
    /\ ClIdle
    /\ GmIdle
    /\ KeyIdle
    /\ impl \in Impls
    /\ jobPages \in PollingJobResults
    /\ tpc = IF impl = "current" THEN "put" ELSE "start"
    /\ jobStatus = ""
    /\ extractedText = <<>>
    /\ nextToken = NoToken
    /\ caught = <<>>
    /\ txOutcome = NoOutcome
    /\ txLog = <<>>

NextPolling ==
    \/ TxPut
    \/ TxStart
    \/ TxSleep
    \/ TxPoll
    \/ TxFetch
    \/ TxCleanup
    \/ TxCatch
    \/ LegacyReturn
    \/ LegacyCatch

SpecPolling == InitPolling /\ [][NextPolling]_vars

\* Every awaited call settles and every timer fires: a step that is
\* possible is taken.
SpecPollingLive == SpecPolling /\ WF_vars(NextPolling)

\* ------------------------------------------------------------------------
\* Properties of TextractHelper.extractTextFromPDF
\* ------------------------------------------------------------------------
Polled(status) ==
    \E i \in DOMAIN txLog : txLog[i].op = "poll" /\ txLog[i].st = status

CallFailed == \E i \in DOMAIN txLog : txLog[i].st = "error" /\ txLog[i].op # "deleteObject"

TxEnded == tpc \in {"returned", "thrown"}

\* C3: the call returns a text result only after a poll has returned
\* SUCCEEDED, and throws only after FAILED or an upstream call error; a
\* poll with any other status never ends the loop with a returned result.
C3_PollsUntilTerminal ==
    /\ txOutcome.kind = "returned" => Polled("SUCCEEDED")
    /\ txOutcome.kind = "thrown" => Polled("FAILED") \/ CallFailed

\* C4: when a poll returns FAILED the call throws the job-failure error
\* and has issued exactly one deleteObject call, whatever that delete's
\* own outcome; it never returns.
C4_FailedThrowsWithOneDelete ==
    Polled("FAILED") =>
        /\ txOutcome.kind # "returned"
        /\ CountCalls(txLog, "deleteObject") <= 1
        /\ TxEnded =>
            /\ txOutcome.kind = "thrown"
            /\ txOutcome.message =
                   <<"Textract extraction failed: ", "Textract job failed">>
            /\ CountCalls(txLog, "deleteObject") = 1

C4_Witness ==
    /\ Polled("FAILED")
    /\ tpc = "thrown"
    /\ txLog[Len(txLog)] = Call("deleteObject", "error", 0)

\* Statuses with which the service reports that the job is over.
JobOver == Statuses \ {"IN_PROGRESS"}

\* C5: every return or throw of the call is preceded by a deleteObject
\* attempt on the staged key (a successful one leaves no object under it),
\* and every delete comes after a failed call or after a poll that
\* reported the job over.
C5_DeleteOnEveryExit ==
    /\ TxEnded => CountCalls(txLog, "deleteObject") >= 1
    /\ TxEnded /\ txLog[Len(txLog)] = Call("deleteObject", "ok", 0)
          => TempKey \notin s3
    /\ \A i \in DOMAIN txLog :
          txLog[i].op = "deleteObject" =>
              \E j \in 1..(i-1) :
                  \/ txLog[j].st = "error"
                  \/ txLog[j].op = "poll" /\ txLog[j].st \in JobOver

C5_Witness ==
    /\ tpc = "thrown"
    /\ txLog = <<Call("putObject", "ok", 0), Call("startJob", "error", 0),
                 Call("deleteObject", "ok", 0)>>

\* All blocks of all pages of the job, in order.
RECURSIVE AllBlocks(_)
AllBlocks(pages) ==
    IF pages = <<>> THEN <<>> ELSE Head(pages) \o AllBlocks(Tail(pages))

IsLine(block) == block.BlockType = "LINE"

\* The Text of every LINE block in order, each followed by a newline.
ExpectedText(pages) ==
    LET lines == SelectSeq(AllBlocks(pages), IsLine)
    IN [k \in 1..(2 * Len(lines)) |->
            IF k % 2 = 1 THEN lines[(k + 1) \div 2].Text ELSE "\n"]

\* C7: the returned text after SUCCEEDED is the concatenation, in page
\* and block order, of the Text of every LINE block, each followed by a
\* newline; non-LINE blocks add nothing and no block is counted twice.
C7_TextIsAllLinesInOrder ==
    txOutcome.kind = "returned" /\ Polled("SUCCEEDED")
        => txOutcome.text = ExpectedText(jobPages)

C7_Witness ==
    /\ txOutcome.kind = "returned"
    /\ Len(jobPages) = 3
    /\ jobPages[1] = <<[BlockType |-> "WORD", Text |-> "w"],
                       [BlockType |-> "LINE", Text |-> "b"]>>
    /\ txOutcome.text = <<"b", "\n", "a", "\n", "a", "\n">>

FetchedPage(i) == PageResult(jobPages, PageIndex(txLog[i].n))

IsFetched(i) == txLog[i].op = "fetch" /\ txLog[i].st = "ok"

\* C8: a fetched page with a continuation token is followed by a fetch
\* with that token, even when it carries no LINE block, and a fetched
\* page without a token is never followed by another fetch.
C8_PaginationEndsOnMissingToken ==
    \A i \in DOMAIN txLog :
        IsFetched(i) =>
            IF FetchedPage(i).NextToken # NoToken
            THEN IF i = Len(txLog)
                   THEN tpc = "fetch" /\ nextToken = FetchedPage(i).NextToken
                   ELSE /\ txLog[i + 1].op = "fetch"
                        /\ txLog[i + 1].n = FetchedPage(i).NextToken
            ELSE \A j \in DOMAIN txLog : j > i => txLog[j].op # "fetch"

C8_Witness ==
    \E i \in DOMAIN txLog :
        /\ IsFetched(i)
        /\ LineText(FetchedPage(i).Blocks) = <<>>
        /\ FetchedPage(i).NextToken # NoToken
        /\ i < Len(txLog)
        /\ IsFetched(i + 1)
        /\ tpc = "returned"

\* ------------------------------------------------------------------------
\* Properties of the stitching routines
\* ------------------------------------------------------------------------
StitchFinished == variant \in Variants /\ ~MoreBatches(si, pageImages)

\* C9: every stitched image of every routine is a full grid canvas of
\* width cols*cellWidth and height rows*cellHeight (cols = 2, rows = 3),
\* whatever the number of pages of its batch; a batch of one page fills
\* only the top-left cell.
C9_FullGridCanvas ==
    \A k \in DOMAIN stitchedImages :
        LET image == stitchedImages[k]
        IN /\ image.width = cols * image.cellWidth
           /\ image.height = rows * image.cellHeight
           /\ Len(image.cells) = 1 =>
                 image.cells[1].x = 0 /\ image.cells[1].y = 0

\* C10: the number of stitched images is ceil(N / 6) for N rendered pages.
C10_StitchedCountIsCeil ==
    StitchFinished =>
        Len(stitchedImages) =
            (Len(pageImages) + pagesPerImage - 1) \div pagesPerImage

C10_Witness ==
    /\ StitchFinished
    /\ Len(pageImages) = 13
    /\ Len(stitchedImages) = 3
    /\ Len(stitchedImages[3].cells) = 1

\* ------------------------------------------------------------------------
\* Properties of the S3 handlers
\* ------------------------------------------------------------------------
\* C1: the two handlers started on the same staged key are independent:
\* neither handler's run, its deletion of the staged object included,
\* makes the other handler fail.  The object under UploadKey is staged
\* before either request, so a getObject that finds no object under the
\* key has been failed by the other handler's delete.
C1_HandlersIndependent ==
    \A i \in DOMAIN srvLog :
        ~(srvLog[i].op = "getObject" /\ srvLog[i].st = "NoSuchKey")

Responded(svc) == hpc[svc] = "responded" /\ response[svc].status = 200

\* C2: a failing deleteObject never masks the outcome of the extraction:
\* an extraction that returned is answered with success, an extraction
\* that threw is answered with its own error message, and the helper's
\* own result does not depend on its delete.
C2_CleanupNeverMasks ==
    /\ \A svc \in Services :
          Responded(svc) =>
              /\ hres[svc].kind = "returned" =>
                    /\ response[svc].body.success
                    /\ response[svc].body.text = hres[svc].value
              /\ hres[svc].kind = "thrown" =>
                    response[svc].body.error = hres[svc].message
    /\ txOutcome.kind = "thrown" => txOutcome.message = WrapTextract(caught)
    /\ txOutcome.kind = "returned" => txOutcome.text = extractedText

\* ------------------------------------------------------------------------
\* Properties of processFile
\* ------------------------------------------------------------------------
ResolvedWithSuccess(svc) ==
    /\ arrived[svc].kind = "data"
    /\ arrived[svc].data.success
    /\ arrived[svc].data.error = <<>>

ThrewOrFailed(svc) ==
    \/ arrived[svc].kind = "rejected"
    \/ arrived[svc].kind = "data" /\ ~arrived[svc].data.success

ShowsFailure(svc) == panel[svc].time = NoTime("Failed")

ShowsSuccess(svc) == panel[svc].time.unit \in {"ms", "s/100"}

\* C6: when processFile has ended and one request resolved with success
\* while the other threw or returned a failure, the panel of the first
\* shows the success display and the panel of the second the failure
\* display, every settled request has left one of the two displays, and
\* processFile ended normally.
C6_OneSuccessOneFailure ==
    cpc = "done" =>
        \A a, b \in Services :
            ResolvedWithSuccess(a) /\ ThrewOrFailed(b) =>
                /\ ShowsSuccess(a) /\ ~ShowsFailure(a)
                /\ ShowsFailure(b) /\ ~ShowsSuccess(b)

\* The page numbers of the batches emitted so far, batch after batch.
RECURSIVE EmittedPages(_)
EmittedPages(images) ==
    IF images = <<>> THEN <<>>
    ELSE EmittedPages(SubSeq(images, 1, Len(images) - 1))
             \o images[Len(images)].pages

\* C11: the batches are consecutive runs of the page sequence in input
\* order: every batch holds 1 to 6 pages and every batch but the last
\* exactly 6, and the batches laid end to end are the pages 1, 2, ... of
\* the document, none dropped, duplicated or reordered.
C11_BatchesPartitionPages ==
    /\ \A p \in DOMAIN pageImages : pageImages[p].no = p
    /\ \A k \in DOMAIN stitchedImages :
          /\ Len(stitchedImages[k].pages) \in 1..pagesPerImage
          /\ (k < Len(stitchedImages) \/ ~StitchFinished) =>
                Len(stitchedImages[k].pages) = pagesPerImage
    /\ EmittedPages(stitchedImages) =
          [p \in 1..Min2(si, Len(pageImages)) |-> p]
    /\ StitchFinished =>
          EmittedPages(stitchedImages) = [p \in DOMAIN pageImages |-> p]

C11_Witness ==
    /\ StitchFinished
    /\ variant \in {"sharp", "canvas"}
    /\ Len(pageImages) = 7
    /\ Len(stitchedImages) = 2
    /\ stitchedImages[1].pages = <<1, 2, 3, 4, 5, 6>>
    /\ stitchedImages[2].pages = <<7>>

\* C12: image j of a batch (counted from 0) lies in the cell of row
\* j div 2 and column j mod 2, that is j = row * 2 + col with col < 2; it
\* is drawn from the cell's origin (col * cellWidth, row * cellHeight),
\* the scaled drawing starting inside the cell; two images of a batch
\* never share a cell, and the image of index 3 is at row 1, column 1.
C12_RowMajorPlacement ==
    \A k \in DOMAIN stitchedImages :
        LET image == stitchedImages[k]
        IN /\ \A j \in DOMAIN image.cells :
                LET cell == image.cells[j]
                IN /\ cell.col \in 0..1
                   /\ j - 1 = cell.row * 2 + cell.col
                   /\ cell.den = 1 =>
                         /\ cell.x = cell.col * image.cellWidth
                         /\ cell.y = cell.row * image.cellHeight
                   /\ cell.x >= cell.den * cell.col * image.cellWidth
                   /\ cell.x < cell.den * (cell.col + 1) * image.cellWidth
                   /\ cell.y >= cell.den * cell.row * image.cellHeight
                   /\ cell.y < cell.den * (cell.row + 1) * image.cellHeight
           /\ \A i, j \in DOMAIN image.cells :
                i # j => <<image.cells[i].row, image.cells[i].col>>
                            # <<image.cells[j].row, image.cells[j].col>>
           /\ Len(image.cells) >= 4 =>
                image.cells[4].row = 1 /\ image.cells[4].col = 1

C12_Witness ==
    /\ variant = "canvas"
    /\ Len(stitchedImages) >= 1
    /\ Len(stitchedImages[1].cells) = 6
    /\ stitchedImages[1].cells[4].row = 1
    /\ stitchedImages[1].cells[4].col = 1
    /\ stitchedImages[1].cells[4].x >=
          stitchedImages[1].cells[4].den * stitchedImages[1].cellWidth

\* C13: in the routines of src/gemini-helper.js 209-255,
\* src/unnamed/part_001 and src/unnamed/part_003 the cell of every batch
\* is as wide as the widest and as tall as the tallest image of the
\* batch, the stitched image is 2 cells wide and 3 cells tall, and no
\* image is drawn wider or taller than its cell.
C13_CellIsBatchMaximum ==
    variant \in {"canvas", "pdflib", "browser"} =>
        \A k \in DOMAIN stitchedImages :
            LET image == stitchedImages[k]
                batch == Batch(pageImages, (k - 1) * pagesPerImage)
            IN /\ image.cellWidth = Max(Widths(batch))
               /\ image.cellHeight = Max(Heights(batch))
               /\ image.width = image.cellWidth * 2
               /\ image.height = image.cellHeight * 3
               /\ \A j \in DOMAIN image.cells :
                     /\ image.cells[j].w <= image.cells[j].den * image.cellWidth
                     /\ image.cells[j].h <= image.cells[j].den * image.cellHeight

\* ------------------------------------------------------------------------
\* Properties of GeminiHelper.extractTextFromPDF
\* ------------------------------------------------------------------------
\* The call has chosen its temporary directory and not yet ended.
InFlight(e) == gpc[e] \notin {"idle", "returned", "thrown"}

GmErrors(e) == {i \in DOMAIN gLog[e] : gLog[e][i].st = "error"}

\* C14: two extractions that run at the same time never use the same
\* temporary directory: their directories differ, the pages a call works
\* on are pages of its own document, and the page files a call has listed
\* are still there when it stitches them.
C14_NoSharedTempDir ==
    \A e \in Calls :
        /\ \A o \in Calls \ {e} :
              InFlight(e) /\ InFlight(o) => tempDir[e] # tempDir[o]
        /\ \A g \in listed[e] : g.by = e
        /\ gpc[e] = "stitch" /\ variant = "sharp" =>
              listed[e] \subseteq tmpFiles

\* C18: a call issues at most one generateContent request and none after
\* a failed step; it returns only what the model answered, after the one
\* request and with no step failed, or throws the caught error wrapped as
\* 'Gemini extraction failed: ...'.
C18_OneRequestNoPartialResult ==
    \A e \in Calls :
        /\ CountCalls(gLog[e], "generateContent") <= 1
        /\ \A i \in GmErrors(e) : \A j \in DOMAIN gLog[e] :
              j > i => gLog[e][j].op # "generateContent"
        /\ gOutcome[e].kind = "returned" =>
              /\ gOutcome[e].value = GeminiReturn(variant, ModelText)
              /\ CountCalls(gLog[e], "generateContent") = 1
              /\ GmErrors(e) = {}
              /\ gpc[e] = "returned"
        /\ gOutcome[e].kind = "thrown" =>
              /\ GmErrors(e) # {}
              /\ gOutcome[e].message = WrapGemini(gcaught[e])
              /\ gcaught[e] # <<>>
              /\ gpc[e] = "thrown"
        /\ gpc[e] \in {"returned", "thrown"} => gOutcome[e].kind = gpc[e]

C18_Witness ==
    /\ gOutcome[1].kind = "returned"
    /\ CountCalls(gLog[1], "generateContent") = 1
    /\ gOutcome[2].kind = "thrown"
    /\ gOutcome[2].message = WrapGemini(<<"model error">>)
    /\ CountCalls(gLog[2], "generateContent") = 1

\* ------------------------------------------------------------------------
\* Properties of the object keys
\* ------------------------------------------------------------------------
\* C15: the keys built by two distinct calls of
\* TextractHelper.extractTextFromPDF, and by two distinct presigned-url
\* requests, are different, also when the file name is the same.
C15_KeysAreUnique ==
    \A i, j \in DOMAIN keyLog :
        i # j => keyLog[i].key # keyLog[j].key

C15_Witness ==
    /\ Len(keyLog) = 3
    /\ keyLog[1].by = "textract"
    /\ keyLog[2].by = "textract"
    /\ keyLog[1].name = keyLog[2].name
    /\ keyLog[3].by = "presign"
    /\ keyLog[3].name = keyLog[1].name

\* ------------------------------------------------------------------------
\* Properties of the responses of the extraction endpoints
\* ------------------------------------------------------------------------
\* C16: every response an extraction endpoint has sent carries the five
\* fields success, service, text, time and error.
C16_ResponseHasFiveFields ==
    \A svc \in Services :
        response[svc].status # 0 =>
            DOMAIN response[svc].body =
                {"success", "service", "text", "time", "error"}

\* C17: the text field of a successful /api/extract/gemini-s3 response is
\* the string the model answered with.
C17_TextIsModelText ==
    (response["gemini"].status = 200 /\ response["gemini"].body.success) =>
        response["gemini"].body.text = Str(ModelText)

\* ------------------------------------------------------------------------
\* Properties of the polling loop
\* ------------------------------------------------------------------------
Polls == {i \in DOMAIN txLog : txLog[i].op = "poll"}

Sleeps == {i \in DOMAIN txLog : txLog[i].op = "sleep"}

\* C19: the job is polled only after it was submitted and every status
\* seen before the latest one is IN_PROGRESS; once a poll has returned
\* SUCCEEDED or FAILED the client sleeps and polls no more; result pages
\* are fetched only after a poll returned SUCCEEDED; and a call that saw
\* FAILED never returns text, a call that saw SUCCEEDED never throws the
\* job-failure error.
C19_TerminalStatesAbsorbing ==
    /\ \A j \in Polls :
          /\ \E i \in 1..(j - 1) :
                txLog[i].op = "startJob" /\ txLog[i].st = "ok"
          /\ \A i \in Polls : i < j => txLog[i].st = "IN_PROGRESS"
    /\ \A i \in Polls :
          txLog[i].st \in {"SUCCEEDED", "FAILED"} =>
              /\ \A j \in Polls \cup Sleeps : j <= i
              /\ jobStatus = txLog[i].st
    /\ \A j \in DOMAIN txLog :
          txLog[j].op = "fetch" =>
              \E i \in Polls : i < j /\ txLog[i].st = "SUCCEEDED"
    /\ Polled("FAILED") =>
          /\ txOutcome.kind \in {"none", "thrown"}
          /\ CountCalls(txLog, "fetch") = 0
          /\ tpc \in {"catch", "thrown"}
    /\ Polled("SUCCEEDED") =>
          /\ caught # FailedMessage(impl)
          /\ txOutcome.kind \in {"none", "returned", "thrown"}

C19_Witness ==
    /\ impl = "legacy"
    /\ Polled("IN_PROGRESS")
    /\ Polled("SUCCEEDED")
    /\ CountCalls(txLog, "fetch") = 2
    /\ txOutcome.kind = "returned"

\* C20: every status poll, the first one included, comes right after
\* exactly one sleep; all sleeps of a call last the same fixed time (3000
\* or 5000 ms); and after an IN_PROGRESS answer the client always goes on
\* to sleep and poll again.
C20_FixedIntervalBeforeEveryPoll ==
    /\ \A j \in Polls :
          /\ j - 1 \in Sleeps
          /\ j - 2 \notin Sleeps
    /\ \A i \in Sleeps :
          /\ txLog[i].n \in {3000, 5000}
          /\ \A j \in Sleeps : txLog[j].n = txLog[i].n
          /\ IF i = Len(txLog) THEN tpc = "poll" ELSE i + 1 \in Polls
    /\ \A j \in Polls :
          txLog[j].st = "IN_PROGRESS" =>
              IF j = Len(txLog) THEN tpc = "sleep" ELSE j + 1 \in Sleeps

C20_Witness ==
    /\ impl = "current"
    /\ Cardinality(Polls) = 2
    /\ Cardinality(Sleeps) = 2
    /\ \A i \in Sleeps : txLog[i].n = 3000
    /\ Polled("IN_PROGRESS")

\* ------------------------------------------------------------------------
\* Properties of the reassembled document
\* ------------------------------------------------------------------------
\* C21: the reassembled document has one page per stitched image, in
\* batch order, each page as wide and as tall as its stitched image; its
\* page count is ceil(N / 6) for N original pages and is the pageCount
\* the routine returns, where it returns one.
C21_OnePagePerStitchedImage ==
    newPdf # NoDoc =>
        /\ Len(newPdf) = Len(stitchedImages)
        /\ \A k \in DOMAIN newPdf :
              /\ newPdf[k].image = k
              /\ newPdf[k].width = stitchedImages[k].width
              /\ newPdf[k].height = stitchedImages[k].height
        /\ Len(newPdf) = Ceil(Len(pageImages), 6)
        /\ pageCount # NoCount => pageCount = Len(newPdf)

\* ------------------------------------------------------------------------
\* Scale-to-fit placement and repeated runs
\* ------------------------------------------------------------------------
\* The source pages of stitched image k of the first run.
SourceBatch(k) == Batch(pageImages, (k - 1) * pagesPerImage)

\* Rectangles a and b (numerators over their own denominators) share no
\* interior point.
Disjoint(a, b) ==
    \/ (a.x + a.w) * b.den <= b.x * a.den
    \/ (b.x + b.w) * a.den <= a.x * b.den
    \/ (a.y + a.h) * b.den <= b.y * a.den
    \/ (b.y + b.h) * a.den <= a.y * b.den

\* C22: in the scale-to-fit routine every image is drawn with one scale
\* factor for both axes, the smaller of cellWidth / width and
\* cellHeight / height, centred in its cell, so its rectangle lies inside
\* its own cell and overlaps no other image's rectangle.
C22_ScaleToFitInsideOwnCell ==
    variant = "canvas" =>
        \A k \in DOMAIN stitchedImages :
            LET img == stitchedImages[k]
                cw == img.cellWidth
                ch == img.cellHeight
            IN \A j \in DOMAIN img.cells :
                  LET c == img.cells[j]
                      src == SourceBatch(k)[j]
                  IN /\ c.w * src.height = c.h * src.width
                     /\ c.w <= c.den * cw
                     /\ c.h <= c.den * ch
                     /\ c.w = c.den * cw \/ c.h = c.den * ch
                     /\ 2 * c.x + c.w = c.den * (2 * c.col + 1) * cw
                     /\ 2 * c.y + c.h = c.den * (2 * c.row + 1) * ch
                     /\ c.x >= c.den * c.col * cw
                     /\ c.x + c.w <= c.den * (c.col + 1) * cw
                     /\ c.y >= c.den * c.row * ch
                     /\ c.y + c.h <= c.den * (c.row + 1) * ch
                     /\ \A i \in DOMAIN img.cells :
                           i # j => Disjoint(c, img.cells[i])

\* A full scale-to-fit image holding an enlarged page, a page that fills the
\* cell width with a margin above and below, and a page that fills the cell
\* height with a margin left and right.
C22_Witness ==
    /\ variant = "canvas"
    /\ \E k \in DOMAIN stitchedImages :
          LET img == stitchedImages[k]
          IN /\ Len(img.cells) = pagesPerImage
             /\ \E j \in DOMAIN img.cells :
                   img.cells[j].w > img.cells[j].den * SourceBatch(k)[j].width
             /\ \E j \in DOMAIN img.cells :
                   LET c == img.cells[j]
                   IN /\ c.w = c.den * img.cellWidth
                      /\ c.h < c.den * img.cellHeight
             /\ \E j \in DOMAIN img.cells :
                   LET c == img.cells[j]
                   IN /\ c.h = c.den * img.cellHeight
                      /\ c.w < c.den * img.cellWidth

\* Both calls of the routine have left their batch loops.
BothRunsFinished ==
    /\ ~MoreBatches(si, pageImages)
    /\ ~MoreBatches(si2, pageImages2)

\* C24: two runs of a stitching routine on the same sequence of page
\* dimensions produce the same number of stitched images, and the k-th
\* image of one run has the width and height of the k-th image of the other.
C24_StitchingIsDeterministic ==
    /\ \A k \in DOMAIN stitchedImages \cap DOMAIN stitchedImages2 :
          /\ stitchedImages[k].width = stitchedImages2[k].width
          /\ stitchedImages[k].height = stitchedImages2[k].height
    /\ BothRunsFinished => Len(stitchedImages) = Len(stitchedImages2)

\* Both runs have finished on a document of two batches whose stitched
\* images differ in width and in height.
C24_Witness ==
    /\ BothRunsFinished
    /\ Len(stitchedImages2) = 2
    /\ stitchedImages2[1].width # stitchedImages2[2].width
    /\ stitchedImages2[1].height # stitchedImages2[2].height

\* ------------------------------------------------------------------------
\* A failed rendering
\* ------------------------------------------------------------------------
\* The entries of the log of call e that record a failed rendering of the
\* document into page images (pdfToPng, or convert in the ImageMagick
\* variant).
RenderFailures(e) ==
    {i \in DOMAIN gLog[e] :
        gLog[e][i].op \in {"pdfToPng", "convert"} /\ gLog[e][i].st = "error"}

\* C23: when the rendering of the document fails, the call stitches
\* nothing, reads no stitched image back, issues no generateContent request
\* and returns no document; its next step removes the temporary directory
\* (which is gone when the removal succeeds and no other call uses the same
\* name), and the call can only end by throwing the wrapped error.
C23_RenderFailureAbortsPipeline ==
    \A e \in Calls :
        RenderFailures(e) # {} =>
            /\ \A i \in DOMAIN gLog[e] :
                  gLog[e][i].op \notin {"stitch", "readFile", "generateContent"}
            /\ \A g \in tmpFiles : ~(g.name = "stitched" /\ g.by = e)
            /\ gOutcome[e].kind # "returned"
            /\ gpc[e] \in {"catch", "wrap", "thrown"}
            /\ \A i \in RenderFailures(e) : i = Len(gLog[e]) - 1 \/ i = Len(gLog[e])
            /\ gpc[e] = "catch" => gLog[e][Len(gLog[e])].op # "rm"
            /\ gpc[e] \in {"wrap", "thrown"} =>
                  LET rm == gLog[e][Len(gLog[e])]
                  IN /\ rm.op = "rm"
                     /\ (/\ rm.st = "ok"
                         /\ \A o \in Calls \ {e} : tempDir[o] # tempDir[e])
                        => /\ tempDir[e] \notin tmpDirs
                           /\ \A g \in tmpFiles : g.dir # tempDir[e]
            /\ gpc[e] = "thrown" =>
                  /\ gOutcome[e].kind = "thrown"
                  /\ gOutcome[e].message = WrapGemini(<<"render error">>)

\* The rendering by pdfToPng failed, the directory was removed and the call
\* has thrown, while the other call returned the model's text.
C23_Witness ==
    /\ variant = "canvas"
    /\ RenderFailures(1) # {}
    /\ gpc[1] = "thrown"
    /\ gLog[1][Len(gLog[1])] = Call("rm", "ok", 0)
    /\ tempDir[1] \notin tmpDirs
    /\ gOutcome[1].kind = "thrown"
    /\ gOutcome[2].kind = "returned"

\* ------------------------------------------------------------------------
\* Display of the two results
\* ------------------------------------------------------------------------
\* The panel of svc while its request is in flight.
Loading(svc) == panel[svc] = ProcessingPanel(PlaceholderPanel)

\* C25: in processFile the panel of a provider shows what the chain of its
\* own request made of the response from the moment that request has
\* settled, whatever the state of the other request; while both requests
\* are in flight either of them can settle first, and a request that is
\* still in flight leaves its own panel loading and nothing else waiting.
C25_ResultsShownIndependently ==
    /\ \A svc \in Services :
          /\ chain[svc] = "fulfilled" =>
                /\ panel[svc] = AfterChain(ProcessingPanel(PlaceholderPanel),
                                           arrived[svc])
                /\ ~Loading(svc)
          /\ chain[svc] = "pending" => Loading(svc) /\ cpc = "extract"
    /\ chain["gemini"] = "pending" => ENABLED GeminiSettled
    /\ chain["textract"] = "pending" => ENABLED TextractSettled

\* The result of Textract is on display while the request of Gemini is
\* still in flight.
C25_Witness ==
    /\ chain["textract"] = "fulfilled"
    /\ arrived["textract"].kind = "data"
    /\ arrived["textract"].data.success
    /\ ShowsSuccess("textract")
    /\ panel["textract"].text = <<"text">>
    /\ chain["gemini"] = "pending"
    /\ Loading("gemini")

\* ------------------------------------------------------------------------
\* Accepted files
\* ------------------------------------------------------------------------
\* C26: a file is accepted only if it is a PDF of at most 15MB: the file
\* handleFile selects, and the file an upload configuration of the server
\* lets through, are PDFs of at most 15 * 1024 * 1024 bytes.
C26_AcceptedOnlyUpTo15MB ==
    /\ selectedFile => fileType = Pdf /\ fileSize <= DocumentedLimit
    /\ reqFile # NoFile =>
          reqFile.type = Pdf /\ reqFile.size <= DocumentedLimit

\* ------------------------------------------------------------------------
\* Errors inside the extraction handlers
\* ------------------------------------------------------------------------
\* The calls the handler of svc has made itself.
OwnCalls(svc, op) ==
    {i \in DOMAIN srvLog : srvLog[i].svc = svc /\ srvLog[i].op = op}

First(S) == CHOOSE i \in S : \A j \in S : i <= j

\* The message of the error thrown inside the try block of the handler of
\* svc, <<>> when none was thrown: a failed download, a helper call that
\* threw, or a failed delete after a helper call that returned.
ThrownMessage(svc) ==
    LET gets == OwnCalls(svc, "getObject")
        dels == OwnCalls(svc, "deleteObject")
    IN IF gets # {} /\ srvLog[First(gets)].st # "ok"
         THEN GetError(srvLog[First(gets)].st)
       ELSE IF hres[svc].kind = "thrown"
         THEN hres[svc].message
       ELSE IF /\ hres[svc].kind = "returned"
               /\ dels # {}
               /\ srvLog[First(dels)].st = "error"
         THEN <<"S3 delete error">>
       ELSE <<>>

\* C27: an error thrown while the provider path of a handler runs (the
\* download, the helper call with its stitching, model call or OCR job, the
\* delete) is answered with a structured result: success false, text '',
\* the message of the thrown error as error, and the elapsed time.  A
\* handler that has caught an error can always answer, and a handler that
\* has ended has sent a response.
C27_ThrownErrorBecomesFailureResult ==
    /\ \A svc \in Services :
          /\ hpc[svc] = "responded" => response[svc] # NoResponse
          /\ hpc[svc] # "responded" => response[svc] = NoResponse
          /\ ThrownMessage(svc) # <<>> =>
                /\ hpc[svc] \in {"catch", "responded"}
                /\ hpc[svc] = "responded" =>
                      /\ response[svc].status = 200
                      /\ response[svc].body =
                            [success |-> FALSE, service |-> svc,
                             text |-> Str(<<>>), time |-> "elapsed",
                             error |-> ThrownMessage(svc)]
          /\ (hpc[svc] = "responded" /\ reqKey[svc] # NoKey
                  /\ ThrownMessage(svc) = <<>>) =>
                response[svc].body.success
    /\ hpc["gemini"] = "catch" => ENABLED GeminiCatch
    /\ hpc["textract"] = "catch" => ENABLED TextractCatch

\* The OCR job failed and the handler of Textract answered with the
\* helper's message, the handler of Gemini with the message of the model
\* call's error; the delete of one of the catch blocks failed as well.
C27_Witness ==
    /\ \A svc \in Services : reqKey[svc] = UploadKey
    /\ hpc["textract"] = "responded"
    /\ response["textract"].body.success = FALSE
    /\ response["textract"].body.error =
          WrapTextract(FailedMessage("current"))
    /\ hpc["gemini"] = "responded"
    /\ response["gemini"].body.success = FALSE
    /\ response["gemini"].body.error = WrapGemini(<<"model error">>)
    /\ \E i \in DOMAIN srvLog :
          srvLog[i].op = "deleteObject" /\ srvLog[i].st = "error"

\* ------------------------------------------------------------------------
\* Cleanup of the staged objects
\* ------------------------------------------------------------------------
\* The handler of svc has answered a request that carried a key.
Answered(svc) == hpc[svc] = "responded" /\ reqKey[svc] # NoKey

\* No deleteObject call of a handler or of the helper has failed.
DeletesSucceeded ==
    /\ \A i \in DOMAIN srvLog :
          srvLog[i].op = "deleteObject" => srvLog[i].st = "ok"
    /\ \A i \in DOMAIN txLog :
          txLog[i].op = "deleteObject" => txLog[i].st = "ok"

\* C28: a gemini-s3 or textract-s3 request that carried a key has issued a
\* deleteObject on the uploaded object by the time it is answered, on the
\* success path and on every failure path, and no response is sent before
\* it; when both handlers have answered and no delete has failed, neither
\* the uploaded object nor the helper's textract-temp copy is left.
C28_StagedObjectDeletedBeforeResponse ==
    /\ \A svc \in Services :
          /\ Answered(svc) => OwnCalls(svc, "deleteObject") # {}
          /\ (reqKey[svc] # NoKey /\ OwnCalls(svc, "deleteObject") = {}) =>
                response[svc] = NoResponse
    /\ (Answered("gemini") /\ Answered("textract") /\ DeletesSucceeded) =>
          /\ UploadKey \notin s3
          /\ TempKey \notin s3

\* Both handlers have answered, Gemini with success and Textract with the
\* failure of its job; the helper had staged its copy, every delete
\* succeeded and the bucket is empty.
C28_Witness ==
    /\ Answered("gemini")
    /\ Answered("textract")
    /\ response["gemini"].body.success
    /\ ~response["textract"].body.success
    /\ Polled("FAILED")
    /\ txLog[1] = Call("putObject", "ok", 0)
    /\ DeletesSucceeded
    /\ CountCalls(txLog, "deleteObject") = 1
    /\ s3 = {}

\* ------------------------------------------------------------------------
\* Termination and order of the calls of extractTextFromPDF
\* ------------------------------------------------------------------------
\* The job was submitted and the service has answered IN_PROGRESS to every
\* status request made so far, none of which failed.
StillInProgress ==
    /\ \E i \in DOMAIN txLog : txLog[i] = Call("startJob", "ok", 0)
    /\ \A i \in Polls : txLog[i].st = "IN_PROGRESS"

\* The call has returned or thrown, after its cleanup delete where the
\* helper stages a copy.
Completed ==
    /\ TxEnded
    /\ impl = "current" => CountCalls(txLog, "deleteObject") >= 1

\* C29: when the service reports a terminal status after finitely many
\* polls and the result pages end with a page without token, the call
\* eventually returns or throws and has attempted its cleanup delete by
\* then; as long as every poll has answered IN_PROGRESS the call has not
\* completed, has issued no delete, and the staged copy is still there.
C29_CompletesOnceJobIsOver ==
    /\ <>Completed
    /\ [](StillInProgress =>
            /\ tpc \in {"sleep", "poll"}
            /\ ~TxEnded
            /\ CountCalls(txLog, "deleteObject") = 0
            /\ impl = "current" => TempKey \in s3)

\* The call has returned after an IN_PROGRESS and a SUCCEEDED answer, all
\* result pages fetched, the staged copy deleted.
C29_Witness ==
    /\ impl = "current"
    /\ tpc = "returned"
    /\ Polled("IN_PROGRESS")
    /\ Polled("SUCCEEDED")
    /\ CountCalls(txLog, "fetch") = Len(jobPages)
    /\ Len(jobPages) > 1
    /\ txLog[Len(txLog)] = Call("deleteObject", "ok", 0)
    /\ TempKey \notin s3

\* The rank of a call in the order put, start, poll, fetch, delete.
Phase(op) ==
    CASE op = "putObject" -> 1
      [] op = "startJob" -> 2
      [] op \in {"sleep", "poll"} -> 3
      [] op = "fetch" -> 4
      [] op = "deleteObject" -> 5

\* C30: the calls of extractTextFromPDF are issued in the order put, start
\* job, poll, fetch pages, delete: the job is started only after putObject
\* succeeded and polled only after the start succeeded; when putObject or
\* the start fails no poll and no fetch is ever issued and the call can
\* only throw.
C30_StepsStrictlyOrdered ==
    /\ \A i, j \in DOMAIN txLog :
          i < j => Phase(txLog[i].op) <= Phase(txLog[j].op)
    /\ \A op \in {"putObject", "startJob", "deleteObject"} :
          CountCalls(txLog, op) <= 1
    /\ \A i \in DOMAIN txLog :
          /\ txLog[i].op = "startJob" =>
                i = 2 /\ txLog[1] = Call("putObject", "ok", 0)
          /\ txLog[i].op \in {"sleep", "poll", "fetch"} =>
                /\ txLog[1] = Call("putObject", "ok", 0)
                /\ txLog[2] = Call("startJob", "ok", 0)
          /\ txLog[i].op = "fetch" => \E j \in 1..(i - 1) :
                txLog[j] = Call("poll", "SUCCEEDED", 0)
    /\ \A i \in DOMAIN txLog :
          (txLog[i].op \in {"putObject", "startJob"} /\ txLog[i].st = "error")
             => /\ CountCalls(txLog, "poll") = 0
                /\ CountCalls(txLog, "fetch") = 0
                /\ CountCalls(txLog, "sleep") = 0
                /\ tpc \in {"catch", "thrown"}
                /\ txOutcome.kind # "returned"
                /\ tpc = "thrown" =>
                      /\ txOutcome.kind = "thrown"
                      /\ txOutcome.message = WrapTextract(caught)

\* putObject was rejected: the call has thrown the wrapped error after its
\* delete, and nothing else was issued.
C30_Witness ==
    /\ tpc = "thrown"
    /\ txLog[1] = Call("putObject", "error", 0)
    /\ Len(txLog) = 2
    /\ txLog[2].op = "deleteObject"
    /\ txOutcome.message = WrapTextract(<<"S3 put error">>)

\* ------------------------------------------------------------------------
\* Partial text
\* ------------------------------------------------------------------------
\* A status poll or a page request of the call was rejected.
PollOrFetchThrew ==
    \E i \in DOMAIN txLog :
        txLog[i].op \in {"poll", "fetch"} /\ txLog[i].st = "error"

\* C31: when a status poll or a page request is rejected, the call does not
\* return: it can only end by throwing, and the error it throws carries no
\* text, whatever text had been accumulated; a call that returns after
\* SUCCEEDED has fetched every page of the result.
C31_NoPartialText ==
    /\ PollOrFetchThrew =>
          /\ tpc \in {"catch", "thrown"}
          /\ txOutcome.kind # "returned"
          /\ txOutcome.text = <<>>
          /\ tpc = "thrown" =>
                /\ txOutcome.kind = "thrown"
                /\ txOutcome.message = WrapTextract(caught)
    /\ (txOutcome.kind = "returned" /\ Polled("SUCCEEDED")) =>
          /\ ~CallFailed
          /\ CountCalls(txLog, "fetch") = Len(jobPages)
          /\ txOutcome.text = ExpectedText(jobPages)

\* The first page gave LINE text, the request of the second page was
\* rejected, and the call has thrown.
C31_Witness ==
    /\ extractedText # <<>>
    /\ txLog[Len(txLog) - 1] = Call("fetch", "error", 2)
    /\ tpc = "thrown"
    /\ txOutcome.kind = "thrown"
    /\ txOutcome.message = WrapTextract(<<"Textract fetch error">>)

\* ------------------------------------------------------------------------
\* Order of the requests of processFile
\* ------------------------------------------------------------------------
\* The extraction requests in the log of the run.
ExtractionRequests ==
    {i \in DOMAIN clLog : clLog[i].op \in {"gemini-s3", "textract-s3"}}

\* The presigned-url request or the upload of the run has failed.
EarlierStepFailed ==
    \E i \in DOMAIN clLog :
        clLog[i].op \in {"presigned-url", "upload"} /\ clLog[i].st # "ok"

\* C32: processFile issues an extraction request only after the
\* presigned-url request and then the upload have succeeded, each of the
\* two requests carries the key of the presigned-url response, and after a
\* successful upload both are issued; when one of the two earlier steps
\* fails no extraction request is issued and both panels show an
\* "Upload failed: ..." error.
C32_ExtractionOnlyAfterUpload ==
    /\ \A i \in ExtractionRequests :
          /\ clLog[1] = ClCall("presigned-url", "ok", UploadKey)
          /\ clLog[2] = ClCall("upload", "ok", UploadKey)
          /\ i > 2
          /\ clLog[i].key = clLog[1].key
    /\ \A svc \in Services :
          /\ sentKey[svc] # NoKey =>
                sentKey[svc] = clLog[1].key /\ ExtractionRequests # {}
          /\ chain[svc] # "none" => ExtractionRequests # {}
    /\ (\E i \in DOMAIN clLog : clLog[i] = ClCall("upload", "ok", UploadKey)) =>
          {clLog[i].op : i \in ExtractionRequests} =
              {"gemini-s3", "textract-s3"}
    /\ EarlierStepFailed =>
          /\ ExtractionRequests = {}
          /\ cpc = "done"
          /\ \A svc \in Services :
                /\ chain[svc] = "none"
                /\ ShowsFailure(svc)
                /\ SubSeq(panel[svc].text, 1, 2) = <<"Error: ", "Upload failed: ">>

\* The presigned-url request succeeded and the upload was answered with an
\* error status: no extraction request, both panels show the upload error.
C32_Witness ==
    /\ clLog = <<ClCall("presigned-url", "ok", UploadKey),
                 ClCall("upload", "not ok", UploadKey)>>
    /\ cpc = "done"
    /\ \A svc \in Services :
          panel[svc].text =
              <<"Error: ", "Upload failed: ", "Failed to upload file to S3">>

\* ------------------------------------------------------------------------
\* The reset panels
\* ------------------------------------------------------------------------
\* C33: from resetToUpload until the next start of processFile both result
\* panels show their placeholder content: nothing that was in flight at the
\* reset is written into them.
C33_ResetPanelsStayPlaceholder ==
    wasReset => \A svc \in Services : panel[svc] = PlaceholderPanel

\* ------------------------------------------------------------------------
\* Validation of the requests of the direct-upload flow
\* ------------------------------------------------------------------------
\* A presigned-url body the handler rejects: no filename, or a content type
\* other than application/pdf.
InvalidUrlRequest(r) ==
    r.filename = NoFilename \/ r.contentType # "application/pdf"

\* The handler of svc was given a request without a key.
WithoutKey(svc) == hpc[svc] # "idle" /\ reqKey[svc] = NoKey

\* What holds once an invalid request was received: it is answered with
\* status 400 and its handler has called neither S3 nor a provider.
RejectedWithoutSideEffect ==
    /\ \A svc \in Services :
          WithoutKey(svc) =>
              /\ hpc[svc] = "responded"
              /\ response[svc] = BadRequest
              /\ \A i \in DOMAIN srvLog : srvLog[i].svc # svc
              /\ hres[svc] = NoResult
    /\ WithoutKey("textract") => tpc = "idle" /\ txLog = <<>>
    /\ (urlRequest # NoUrlRequest /\ InvalidUrlRequest(urlRequest)) =>
          /\ urlResponse.status = 400
          /\ DOMAIN urlResponse.body = {"error"}

\* The step that receives an invalid request answers it and leaves the
\* bucket, the call logs, the helper and the keys built so far alone.
RejectionStep ==
    /\ \A svc \in Services :
          (hpc[svc] = "idle" /\ hpc'[svc] # "idle" /\ reqKey'[svc] = NoKey) =>
              /\ response'[svc].status = 400
              /\ UNCHANGED <<s3, srvLog, txVars, hres, keyVars>>
    /\ (keyVars' # keyVars /\ InvalidUrlRequest(urlRequest')) =>
          /\ urlResponse'.status = 400
          /\ UNCHANGED <<s3, srvLog, txVars, hres, issued, keyLog>>

\* C34: an invalid request is rejected with HTTP 400 before any side effect:
\* a gemini-s3 or textract-s3 request without a key performs no S3 get, no
\* provider call and no delete, and a presigned-url request without filename
\* or with a contentType other than application/pdf is given no upload URL
\* and no key, and no key is built for it.
C34_InvalidRequestsRejectedFirst ==
    /\ []RejectedWithoutSideEffect
    /\ [][RejectionStep]_vars

\* All three endpoints have rejected a request: the two extraction
\* endpoints one without key, presigned-url one without filename; the
\* staged object is still in the bucket, no call was made, no key built.
C34_Witness ==
    /\ \A svc \in Services : WithoutKey(svc) /\ response[svc] = BadRequest
    /\ urlRequest = [filename |-> NoFilename, contentType |-> "application/pdf"]
    /\ urlResponse = InvalidRequest
    /\ s3 = {UploadKey}
    /\ srvLog = <<>>
    /\ txLog = <<>>
    /\ keyLog = EarlierKeys

====
